---- MODULE Spec2Model ----
(***************************************************************************)
(* Request-handling pipeline of the Antigravity proxy:                     *)
(*   src-tauri/src/proxy/server.rs  (handlers, retry loop, classifier)     *)
(*   src-tauri/src/proxy/client.rs  (upstream called_with, stream transformers)  *)
(*                                                                         *)
(* One client request is followed from handler entry to its response and   *)
(* through the body of a streaming response.  The token provider           *)
(* (TokenManager) and the upstream service are the environment.            *)
(*                                                                         *)
(* Text: messages are TLA+ strings and the classifier searches them for    *)
(* substrings as the code does.  Every non-ASCII character of a source     *)
(* literal is written "?"; no pattern of the classifier holds one.         *)
(***************************************************************************)
EXTENDS Integers, Sequences, FiniteSets, TLC

\* ------------------------------------------------------------------ bounds

\* Largest token pool.
MaxPool == 2
\* Loop iterations of one handler the model follows (the code sets no such cap).
MaxAttempts == 3
\* Upstream events read in one attempt before the upstream closes the stream.
MaxEvents == 2
\* Reloads of the account pool while the request is in flight.
MaxReloads == 1
\* Upstream events of one attempt when they are recorded.
MaxTrace == 3
\* Requests served at the same time.
MaxClients == 2

\* ------------------------------------------------------------------ values

\* Option::None / JSON null / an absent JSON field.
None == "<none>"

Max(a, b) == IF a >= b THEN a ELSE b
Last(seq) == seq[Len(seq)]

\* str::contains
Contains(s, p) ==
    \E i \in 1..(Len(s) - Len(p) + 1) : SubSeq(s, i, i + Len(p) - 1) = p

\* ------------------------------------------------------------------ tokens

\* ProxyToken: the account (numbered by its place in the pool), whether it
\* carries a project_id, and its session_id, an identifier the provider keeps
\* per account.
SessionIdOf(email) == 100 + email
ProxyToken(email, has_project) ==
    [email |-> email, project_id |-> has_project, session_id |-> SessionIdOf(email)]

\* The pools the provider can hold: up to MaxPool accounts, in order.
Pools ==
    UNION { { [i \in 1..n |-> ProxyToken(i, flags[i])] : flags \in [1..n -> BOOLEAN] }
            : n \in 0..MaxPool }

\* ------------------------------------------------------------------ HTTP responses

StatusOK == 200
StatusTooManyRequests == 429
StatusInternalServerError == 500
StatusServiceUnavailable == 503

\* (status, Json(body)).into_response()
JsonResponse(status, body) == [status |-> status, kind |-> "json", body |-> body]
\* Sse::new(stream).into_response(): the frames follow as the body is polled.
SseResponse(dialect) == [status |-> StatusOK, kind |-> "sse", body |-> [sse |-> dialect]]

\* enum RequestResult
Success(resp) == [tag |-> "Success", response |-> resp]
Retry(reason) == [tag |-> "Retry", reason |-> reason]
Error(resp) == [tag |-> "Error", response |-> resp]

\* get_project_id: Err(response) when the token has no project_id.
ConfigErrorBody ==
    [error |-> [message |-> "?? project_id", type |-> "config_error"]]
\* (variant: the project_id is not looked at)
get_project_id_skips_check(token) == [ok |-> TRUE]
get_project_id(token) ==
    IF token.project_id
    THEN [ok |-> TRUE]
    ELSE [ok |-> FALSE,
          response |-> JsonResponse(StatusInternalServerError, ConfigErrorBody)]

\* ------------------------------------------------------------------ classifier

AccountPatterns == {"404", "NOT_FOUND", "403", "PERMISSION_DENIED"}
QuotaPatterns ==
    {"429", "RESOURCE_EXHAUSTED", "QUOTA_EXHAUSTED",
     "The request has been rate limited", "closed connection",
     "error sending request", "operation timed out", "RATE_LIMIT_EXCEEDED"}

ApiErrorBody(error_msg) ==
    [error |-> [message |-> "Antigravity API ??: " \o error_msg, type |-> "api_error"]]

\* (variant: the account patterns are not looked for)
check_retry_error_quota_only(error_msg) ==
    IF \E p \in QuotaPatterns : Contains(error_msg, p)
    THEN Retry(error_msg)
    ELSE Error(JsonResponse(StatusInternalServerError, ApiErrorBody(error_msg)))
\* check_retry_error
check_retry_error(error_msg) ==
    IF \E p \in AccountPatterns : Contains(error_msg, p)
    THEN Retry("???????????????: " \o error_msg)
    ELSE IF \E p \in QuotaPatterns : Contains(error_msg, p)
    THEN Retry(error_msg)
    ELSE Error(JsonResponse(StatusInternalServerError, ApiErrorBody(error_msg)))

\* ------------------------------------------------------------------ upstream events

\* One SSE event of the upstream stream.  kind "data" is a JSON payload whose
\* candidates sit at top level or, when wrapped, under "response" (with the
\* responseId beside them); "done" is the literal [DONE]; "bad_json" is a payload
\* that does not parse; "sse_err" is an error of the event source.
FinishReasons ==
    {None, "STOP", "MAX_TOKENS", "SAFETY", "RECITATION", "MALFORMED_FUNCTION_CALL"}
DataEvents ==
    [kind : {"data"}, wrapped : BOOLEAN, text : {"", "Hi"}, thought : BOOLEAN,
     sig : {None, "S1", "S2"}, finish : FinishReasons, rid : {None, "R1"}]
ParseErrors == {"expected value at line 1 column 1"}
SseErrors ==
    {"Transport error: error decoding response body",
     "Transport error: operation timed out"}
OtherEvents ==
    {[kind |-> "done"]}
    \cup [kind : {"bad_json"}, err : ParseErrors]
    \cup [kind : {"sse_err"}, err : SseErrors]
UpstreamEvents == DataEvents \cup OtherEvents

\* json.get("responseId"): read at top level only.
TopResponseId(e) == IF e.wrapped THEN None ELSE e.rid

\* Items of the transformed streams: Ok(String) or Err(String).
OkItem(data) == [ok |-> TRUE, data |-> data]
ErrItem(msg) == [ok |-> FALSE, err |-> msg]
DoneChunk == [done |-> TRUE]

\* finish_reason of stream_generate_anthropic (client.rs 269-274)
AnthropicFinishReason(f) ==
    CASE f = "STOP" -> "stop"
      [] f = "MAX_TOKENS" -> "length"
      [] f = "SAFETY" -> "content_filter"
      [] OTHER -> None

\* finish_reason of stream_generate (client.rs 519-525)
OpenAIFinishReason(f) ==
    CASE f = "STOP" -> "stop"
      [] f = "MAX_TOKENS" -> "length"
      [] f = "SAFETY" -> "content_filter"
      [] f = "RECITATION" -> "content_filter"
      [] OTHER -> None

EmptyFinishError(reason) == "Gemini ????? (" \o reason \o ")"

\* (variant: a thoughtSignature alone does not count as content)
AnthropicItems_signature_not_content(e, model_name) ==
    CASE e.kind = "sse_err" -> <<ErrItem("???: " \o e.err)>>
      [] e.kind = "done" -> <<OkItem(DoneChunk)>>
      [] e.kind = "bad_json" -> <<ErrItem("?? Gemini ???: " \o e.err)>>
      [] OTHER ->
          LET finish_reason == AnthropicFinishReason(e.finish)
              has_content == e.text # "" \/ e.thought
              rid == TopResponseId(e)
              chunk ==
                [done |-> FALSE,
                 id |-> IF rid # None THEN rid ELSE "chatcmpl-stream",
                 object |-> "chat.completion.chunk",
                 model |-> model_name,
                 choices |-> <<[index |-> 0,
                                delta |-> [content |-> e.text,
                                           thought |-> e.thought,
                                           thoughtSignature |-> e.sig],
                                finish_reason |-> finish_reason]>>]
          IN IF ~has_content /\ finish_reason \in {"length", "stop"}
             THEN <<ErrItem(EmptyFinishError(finish_reason))>>
             ELSE IF ~has_content /\ finish_reason = None
             THEN <<>>
             ELSE <<OkItem(chunk)>>
\* The flat_map closure of stream_generate_anthropic: the items one upstream
\* event yields (none, one chunk or one error).
AnthropicItems(e, model_name) ==
    CASE e.kind = "sse_err" -> <<ErrItem("???: " \o e.err)>>
      [] e.kind = "done" -> <<OkItem(DoneChunk)>>
      [] e.kind = "bad_json" -> <<ErrItem("?? Gemini ???: " \o e.err)>>
      [] OTHER ->
          LET finish_reason == AnthropicFinishReason(e.finish)
              has_content == e.text # "" \/ e.thought \/ e.sig # None
              rid == TopResponseId(e)
              chunk ==
                [done |-> FALSE,
                 id |-> IF rid # None THEN rid ELSE "chatcmpl-stream",
                 object |-> "chat.completion.chunk",
                 model |-> model_name,
                 choices |-> <<[index |-> 0,
                                delta |-> [content |-> e.text,
                                           thought |-> e.thought,
                                           thoughtSignature |-> e.sig],
                                finish_reason |-> finish_reason]>>]
          IN IF ~has_content /\ finish_reason \in {"length", "stop"}
             THEN <<ErrItem(EmptyFinishError(finish_reason))>>
             ELSE IF ~has_content /\ finish_reason = None
             THEN <<>>
             ELSE <<OkItem(chunk)>>

\* The signature capture of the same closure (client.rs 286-294): the cache
\* after the event has been transformed.
CaptureSignature(map, e) ==
    IF e.kind = "data" /\ e.sig # None
    THEN LET rid == TopResponseId(e)
         IN IF rid # None THEN [map EXCEPT ![rid] = e.sig]
                          ELSE [map EXCEPT !["latest"] = e.sig]
    ELSE map

\* (variant: the text of a chunk that carries a finishReason is left out)
OpenAIItem_drops_final_text(e, model_name) ==
    CASE e.kind = "sse_err" -> ErrItem("???: " \o e.err)
      [] e.kind = "done" -> OkItem(DoneChunk)
      [] e.kind = "bad_json" -> ErrItem("?? Gemini ???: " \o e.err)
      [] OTHER ->
          OkItem([done |-> FALSE,
                  id |-> "chatcmpl-stream",
                  object |-> "chat.completion.chunk",
                  model |-> model_name,
                  choices |-> <<[index |-> 0,
                                 delta |-> [content |-> IF e.finish = None
                                                        THEN e.text ELSE ""],
                                 finish_reason |-> OpenAIFinishReason(e.finish)]>>])
\* The map closure of stream_generate: one item per upstream event.
OpenAIItem(e, model_name) ==
    CASE e.kind = "sse_err" -> ErrItem("???: " \o e.err)
      [] e.kind = "done" -> OkItem(DoneChunk)
      [] e.kind = "bad_json" -> ErrItem("?? Gemini ???: " \o e.err)
      [] OTHER ->
          OkItem([done |-> FALSE,
                  id |-> "chatcmpl-stream",
                  object |-> "chat.completion.chunk",
                  model |-> model_name,
                  choices |-> <<[index |-> 0,
                                 delta |-> [content |-> e.text],
                                 finish_reason |-> OpenAIFinishReason(e.finish)]>>])

\* ------------------------------------------------------------------ unary responses

\* A generateContent response: candidates at top level or under "response";
\* each candidate holds content.parts.
TextPart(t) == [text |-> t]
InlinePart(mime, data) == [inlineData |-> [mimeType |-> mime, data |-> data]]
PartLists ==
    {<<>>, <<TextPart("Hi")>>, <<InlinePart("image/png", "QUJD")>>,
     <<TextPart("Hi"), InlinePart("image/png", "QUJD")>>}
GeminiJson(wrapped, parts) ==
    LET candidates == <<[content |-> [parts |-> parts]]>>
    IN IF wrapped THEN [response |-> [candidates |-> candidates]]
                  ELSE [candidates |-> candidates]
UnaryJsons == { GeminiJson(w, ps) : w \in BOOLEAN, ps \in PartLists }

ImageMarkdown(mime_type, data) ==
    "\n\n![Generated Image](data:" \o mime_type \o ";base64," \o data \o ")\n\n"

\* serde_json's null
JsonNull == [null |-> TRUE]

\* The responses process_inline_data is followed on: parts with text, with
\* inlineData (with and without mimeType), with both, thinking parts; a
\* candidate without content; bodies without candidates.
InlineParts ==
    {TextPart("Hi"), InlinePart("image/png", "QUJD"), [inlineData |-> [data |-> "QUJD"]],
     [text |-> "Hi", inlineData |-> [mimeType |-> "image/png", data |-> "QUJD"]],
     [thought |-> TRUE, text |-> "hm"]}
InlinePartLists ==
    {<<>>} \cup { <<p>> : p \in InlineParts } \cup { <<p, q>> : p, q \in InlineParts }
InlineInputs ==
    { GeminiJson(w, ps) : w \in BOOLEAN, ps \in InlinePartLists }
    \cup {[candidates |-> <<[finishReason |-> "SAFETY"]>>],
          [response |-> [candidates |-> <<[finishReason |-> "SAFETY"]>>]],
          [candidates |-> <<[content |-> [parts |-> <<InlinePart("image/png", "QUJD")>>]],
                            [content |-> [parts |-> <<InlinePart("image/png", "QUJD")>>]]>>],
          [response |-> [promptFeedback |-> "BLOCKED"]],
          [error |-> "INTERNAL"]}

\* (variant: the Markdown part keeps the inlineData beside its text)
InlineToText_keeps_inline_data(part) ==
    IF "inlineData" \in DOMAIN part
    THEN [text |-> ImageMarkdown("image/png", "") \o (IF "text" \in DOMAIN part
                                                      THEN part.text ELSE ""),
          inlineData |-> part.inlineData]
    ELSE part
\* The part pushed to new_parts (server.rs 452-475)
InlineToText(part) ==
    IF "inlineData" \in DOMAIN part
    THEN LET inline_data == part.inlineData
             mime_type == IF "mimeType" \in DOMAIN inline_data
                          THEN inline_data.mimeType ELSE "image/jpeg"
             data == IF "data" \in DOMAIN inline_data THEN inline_data.data ELSE ""
         IN TextPart(ImageMarkdown(mime_type, data))
    ELSE part

\* candidate["content"] on a candidate without the key inserts null; a content
\* that is an object has its parts rewritten.
ProcessCandidate(candidate) ==
    IF "content" \notin DOMAIN candidate
    THEN [k \in DOMAIN candidate \cup {"content"} |->
             IF k = "content" THEN JsonNull ELSE candidate[k]]
    ELSE IF "parts" \in DOMAIN candidate.content
    THEN [candidate EXCEPT !.content.parts =
             [j \in DOMAIN @ |-> InlineToText(@[j])]]
    ELSE candidate

ProcessCandidates(candidates) ==
    [i \in DOMAIN candidates |-> ProcessCandidate(candidates[i])]

\* process_inline_data
process_inline_data(resp) ==
    IF "candidates" \in DOMAIN resp
    THEN [resp EXCEPT !.candidates = ProcessCandidates(@)]
    ELSE IF "response" \in DOMAIN resp /\ "candidates" \in DOMAIN resp.response
    THEN [resp EXCEPT !.response.candidates = ProcessCandidates(@)]
    ELSE resp

\* json[...]["candidates"][0]["content"]["parts"][0]["text"].as_str()
FirstPartText(node) ==
    IF /\ "candidates" \in DOMAIN node
       /\ Len(node.candidates) > 0
       /\ Len(node.candidates[1].content.parts) > 0
       /\ "text" \in DOMAIN node.candidates[1].content.parts[1]
    THEN node.candidates[1].content.parts[1].text
    ELSE None

\* The content of the image chunk (server.rs 221-229).
ImageContent(processed_json) ==
    LET std == IF "response" \in DOMAIN processed_json
               THEN FirstPartText(processed_json.response) ELSE None
        alt == FirstPartText(processed_json)
    IN IF std # None THEN std
       ELSE IF alt # None THEN alt
       ELSE "???????????"

\* ------------------------------------------------------------------ requests

\* The client request: endpoint, model and the optional stream flag (as JSON text).
Requests ==
    [endpoint : {"openai"}, model : {"gemini-2.5-flash", "gemini-3-pro-image-16x9"},
     stream : {None, "true", "false"}]
    \cup [endpoint : {"anthropic"}, model : {"claude-3-5-sonnet-20240620"},
          stream : {None, "true", "false"}]

\* request.stream.unwrap_or(false)
IsStream(req) == req.stream = "true"
\* request.model.contains("gemini-3-pro-image")
IsImageModel(req) == Contains(req.model, "gemini-3-pro-image")

\* Which upstream entry point an attempt of the request called_with.
UpstreamCall(req) ==
    IF req.endpoint = "anthropic" THEN "stream_generate_anthropic"
    ELSE IF IsStream(req) /\ ~IsImageModel(req) THEN "stream_generate"
    ELSE "generate"

\* ------------------------------------------------------------------ upstream failures

\* reqwest errors of send(), as Display prints them.
SendErrors == {"error sending request for url"}
\* Non-2xx answers: status as Display prints it, and the body text.
HttpFailures ==
    {[status |-> "403 Forbidden", body |-> "PERMISSION_DENIED"],
     [status |-> "429 Too Many Requests", body |-> "RESOURCE_EXHAUSTED"],
     [status |-> "500 Internal Server Error", body |-> "INTERNAL"]}
\* A 2xx body that generate cannot parse.
BadBodies == {"<html>"}

\* map_err of send() in the three client functions
SendFailed(e) == "????: " \o e
\* client.rs 152
AnthropicStatusError(f) == "?????? (" \o f.status \o "): " \o f.body
\* client.rs 478, 689
OpenAIStatusError(f) == "API ???? " \o f.status \o ": " \o f.body
\* client.rs 698
ParseFailed(e, text) == "??????: " \o e \o ". ????: " \o text

\* The Err(String) values a call of the entry point can return.
CallErrors(call) ==
    { SendFailed(e) : e \in SendErrors }
    \cup (IF call = "stream_generate_anthropic"
          THEN { AnthropicStatusError(f) : f \in HttpFailures }
          ELSE { OpenAIStatusError(f) : f \in HttpFailures })
    \cup (IF call = "generate"
          THEN { ParseFailed(e, t) : e \in ParseErrors, t \in BadBodies }
          ELSE {})

\* The Err(String) values of generate over a wider range of upstream answers:
\* more errors of send(), a 400 with each of several bodies, other statuses,
\* and a body that does not parse.
ErrorTexts ==
    { SendFailed(e) : e \in {"error sending request for url", "operation timed out",
                             "connection closed before message completed",
                             "builder error"} }
    \cup { OpenAIStatusError([status |-> "400 Bad Request", body |-> b]) :
             b \in {"INVALID_ARGUMENT", "PERMISSION_DENIED", "NOT_FOUND",
                    "RESOURCE_EXHAUSTED", "QUOTA_EXHAUSTED", "RATE_LIMIT_EXCEEDED",
                    "The request has been rate limited", "closed connection"} }
    \cup { OpenAIStatusError([status |-> st, body |-> "INVALID_ARGUMENT"]) :
             st \in {"403 Forbidden", "404 Not Found", "429 Too Many Requests",
                     "503 Service Unavailable"} }
    \cup { ParseFailed(e, t) : e \in ParseErrors, t \in BadBodies }

\* ------------------------------------------------------------------ state

VARIABLES
    request,                \* the client request being handled
    tokens,                 \* TokenManager: the account pool
    current_index,          \* TokenManager: the round-robin cursor
    reloads,                \* pool reloads so far
    thought_signature_map,  \* AppState.thought_signature_map
    pc,                     \* where the handler stands
    max_retries,            \* handler local
    attempts,               \* handler local
    token,                  \* handler local: the token of this attempt
    reads,                  \* upstream events read in this attempt
    full_text,              \* anthropic non-stream local
    stop_reason,            \* anthropic non-stream local
    first_chunk,            \* anthropic stream local: the peeked chunk
    response,               \* the response returned to the client
    converter,              \* SSE body: the ClaudeStreamConverter
    sent,                   \* SSE body: the frames written to the client
    taken,                  \* history: tokens taken from the provider
    called_with,            \* history: the account of each upstream call dispatched
    returned,               \* history: responses returned
    outcomes,               \* history: how each finished attempt ended
    errors,                 \* history: the error text of each failed attempt
    first_empty_max,        \* history: an attempt's first event was an empty MAX_TOKENS
    upstream,               \* history: the events the upstream sent in this attempt
    anthropic_mapping,      \* AppState.anthropic_mapping
    in_flight,              \* the client requests being served at the same time
    wire,                   \* history: the request bodies sent upstream
    uuids,                  \* UUIDs generated for request bodies so far
    last_signature,         \* history: the latest thoughtSignature seen per key
    unary_response,         \* the JSON a generate call returned
    processed,              \* history: the results of process_inline_data, in order
    session_ids,            \* history: the sessionId of each upstream call dispatched
    yielded,                \* history: what a stream transformer yielded per event
    fed,                    \* history: the chunks handed to the Anthropic converter
    mapping_lock,           \* the RwLock of AppState.anthropic_mapping: guards held, waiters
    tasks                   \* where each task that uses the lock is, and its attempts

vars ==
    <<request, tokens, current_index, reloads, thought_signature_map, pc,
      max_retries, attempts, token, reads, full_text, stop_reason, first_chunk,
      response, converter, sent, taken, called_with, returned, outcomes, errors,
      first_empty_max, upstream, anthropic_mapping, in_flight, wire, uuids,
      last_signature, unary_response, processed, session_ids, yielded, fed,
      mapping_lock, tasks>>

provider == <<tokens, current_index, reloads>>

\* Upstream calls dispatched so far.
calls == Len(called_with)
locals == <<reads, full_text, stop_reason, first_chunk, upstream>>
body == <<converter, sent>>
outbound == <<anthropic_mapping, in_flight, wire, uuids, last_signature>>
inline == <<unary_response, processed>>
locking == <<mapping_lock, tasks>>
handler ==
    <<request, provider, pc, max_retries, attempts, token, locals, response, body,
      taken, called_with, returned, outcomes, errors, first_empty_max, session_ids,
      yielded, fed>>

\* Before the handler has a token, a peeked chunk, a response.
NoToken == [email |-> 0, project_id |-> FALSE, session_id |-> 0]
NoChunk == [done |-> FALSE, id |-> None]
NoResponse == [status |-> 0, kind |-> "none"]
NoConverter == [block |-> None, index |-> 0, ended |-> FALSE]

\* The responseIds the upstream uses, and the keys of the signature cache.
ResponseIds == {"R1"}
SigKeys == ResponseIds \cup {"latest"}
\* An empty model mapping.
NoMapping == [k \in {} |-> ""]

\* The events the upstream sends while one request is followed: a text chunk
\* (with and without STOP), a thinking chunk (with and without MAX_TOKENS), a
\* signature chunk, the chunks without content (no finishReason, STOP,
\* MAX_TOKENS), and the events that are no chunk.
Chunk(text, thought, sig, finish) ==
    [kind |-> "data", wrapped |-> FALSE, text |-> text, thought |-> thought,
     sig |-> sig, finish |-> finish, rid |-> IF sig = None THEN None ELSE "R1"]
StreamEvents ==
    {Chunk("Hi", FALSE, None, None), Chunk("Hi", FALSE, None, "STOP"),
     Chunk("", TRUE, None, None), Chunk("", TRUE, None, "MAX_TOKENS"),
     Chunk("", FALSE, "S1", None),
     Chunk("", FALSE, None, None), Chunk("", FALSE, None, "STOP"),
     Chunk("", FALSE, None, "MAX_TOKENS")}
    \cup OtherEvents

\* The tasks that use the lock of the mapping: the handler tasks of the
\* requests served at the same time, and task 0, the caller of update_mapping.
Tasks == 0..MaxClients

\* The handler of one request before its first step.
HandlerInit ==
    /\ request \in Requests
    /\ tokens \in Pools
    /\ current_index \in 0..Max(Len(tokens) - 1, 0)
    /\ reloads = 0
    /\ thought_signature_map = [k \in SigKeys |-> None]
    /\ pc = "entry"
    /\ max_retries = 0
    /\ attempts = 0
    /\ token = NoToken
    /\ reads = 0
    /\ full_text = ""
    /\ stop_reason = "end_turn"
    /\ first_chunk = NoChunk
    /\ response = NoResponse
    /\ converter = NoConverter
    /\ sent = <<>>
    /\ taken = 0
    /\ called_with = <<>>
    /\ returned = 0
    /\ outcomes = <<>>
    /\ errors = [i \in 1..MaxAttempts |-> None]
    /\ first_empty_max = FALSE
    /\ upstream = <<>>
    /\ session_ids = <<>>
    /\ yielded = <<>>
    /\ fed = <<>>
    \* RwLock::new(anthropic_mapping) (server.rs 45): no guard held, no waiter.
    /\ mapping_lock = [readers |-> [t \in Tasks |-> 0], writer |-> FALSE, queue |-> <<>>]
    /\ tasks = [t \in Tasks |-> [pc |-> "start", attempts |-> 0]]

\* No request body has been built, and no signature seen.
OutboundIdle ==
    /\ anthropic_mapping = NoMapping
    /\ in_flight = <<>>
    /\ wire = <<>>
    /\ uuids = 0
    /\ last_signature = [k \in SigKeys |-> None]

\* No unary response is being post-processed.
InlineIdle ==
    /\ unary_response = GeminiJson(FALSE, <<>>)
    /\ processed = <<>>

Init ==
    /\ HandlerInit
    /\ OutboundIdle
    /\ InlineIdle

\* ------------------------------------------------------------------ token provider

\* TokenManager::len
TokenManagerLen == Len(tokens)

\* TokenManager::get_token: the token under the cursor, None for an empty pool.
get_token ==
    IF Len(tokens) = 0 THEN [some |-> FALSE]
    ELSE [some |-> TRUE, token |-> tokens[current_index + 1]]

\* The accounts are reloaded while the request is in flight.  The handler reads
\* the pool only in get_token, so a reload at any earlier moment of an attempt
\* shows as a reload just before the next get_token.
ReloadAccounts ==
    /\ reloads < MaxReloads
    /\ pc = "loop"
    /\ \E p \in Pools : tokens' = p
    /\ tokens' # tokens
    /\ current_index' = 0
    /\ reloads' = reloads + 1
    /\ UNCHANGED body
    /\ UNCHANGED <<locking, outbound, inline, session_ids, yielded, fed>>
    /\ UNCHANGED <<request, thought_signature_map, pc, max_retries, attempts, token,
                   locals, response, taken, called_with, returned, outcomes, errors,
                   first_empty_max>>

\* ------------------------------------------------------------------ handler steps

\* The response leaves the handler.
Return(resp, outcome) ==
    /\ response' = resp
    /\ returned' = returned + 1
    /\ outcomes' = Append(outcomes, outcome)
    /\ pc' = IF resp.kind = "sse" THEN "body" ELSE "done"

\* `continue`: the loop takes the next token.
\* (variant: the attempt that loops on also produces a response)
Continue_and_respond(outcome) ==
    /\ outcomes' = Append(outcomes, outcome)
    /\ pc' = "loop"
    /\ response' = JsonResponse(StatusTooManyRequests, [error |-> outcome])
    /\ returned' = returned + 1
Continue(outcome) ==
    /\ outcomes' = Append(outcomes, outcome)
    /\ pc' = "loop"
    /\ UNCHANGED <<response, returned>>

\* let max_retries = state.token_manager.len().max(1); let mut attempts = 0;
HandlerEntry ==
    /\ pc = "entry"
    /\ max_retries' = Max(TokenManagerLen, 1)
    /\ attempts' = 0
    /\ pc' = "loop"
    /\ UNCHANGED body
    /\ UNCHANGED <<locking, outbound, inline, session_ids, yielded, fed>>
    /\ UNCHANGED <<request, provider, thought_signature_map, token, locals, response,
                   taken, called_with, returned, outcomes, errors, first_empty_max>>

\* The 503 of chat_completions_handler (server.rs 130-138)
\* (variant: answered like an upstream failure)
ChatNoAccounts_as_api_error ==
    JsonResponse(StatusInternalServerError,
                 [error |-> [message |-> "??????", type |-> "api_error"]])
ChatNoAccounts ==
    JsonResponse(StatusServiceUnavailable,
                 [error |-> [message |-> "??????", type |-> "no_accounts"]])

\* The 503 of anthropic_messages_handler (server.rs 588-597)
AnthropicNoAccounts ==
    JsonResponse(StatusServiceUnavailable,
                 [type |-> "error",
                  error |-> [type |-> "overloaded_error",
                             message |-> "No available accounts"]])

\* attempts += 1; state.token_manager.get_token().await
GetToken ==
    /\ pc = "loop"
    /\ attempts < MaxAttempts
    /\ attempts' = attempts + 1
    /\ reads' = 0
    /\ upstream' = <<>>
    /\ full_text' = ""
    /\ stop_reason' = "end_turn"
    /\ first_chunk' = NoChunk
    /\ IF ~get_token.some
       THEN /\ Return(IF request.endpoint = "openai" THEN ChatNoAccounts
                      ELSE AnthropicNoAccounts, "no_token")
            /\ UNCHANGED <<token, taken, current_index>>
       ELSE /\ token' = get_token.token
            /\ current_index' = (current_index + 1) % Len(tokens)
            /\ taken' = taken + 1
            /\ pc' = "dispatch"
            /\ UNCHANGED <<response, returned, outcomes>>
    /\ UNCHANGED body
    /\ UNCHANGED <<locking, outbound, inline, session_ids, yielded, fed>>
    /\ UNCHANGED <<request, tokens, reloads, thought_signature_map, max_retries,
                   called_with, errors, first_empty_max>>

\* (variant: every attempt sends a sessionId of its own)
Dispatch_session_per_attempt ==
    /\ pc = "dispatch"
    /\ IF get_project_id(token).ok
       THEN /\ called_with' = Append(called_with, token.email)
            /\ session_ids' = Append(session_ids, 200 + attempts)
            /\ pc' = "await"
            /\ UNCHANGED <<response, returned, outcomes>>
       ELSE /\ Return(get_project_id(token).response, "no_project")
            /\ UNCHANGED <<called_with, session_ids>>
    /\ UNCHANGED body
    /\ UNCHANGED <<locking, outbound, inline, yielded, fed>>
    /\ UNCHANGED <<request, provider, thought_signature_map, max_retries, attempts,
                   token, locals, taken, errors, first_empty_max>>
\* get_project_id(&token), then the upstream call is sent.
Dispatch ==
    /\ pc = "dispatch"
    /\ IF get_project_id(token).ok
       THEN /\ called_with' = Append(called_with, token.email)
            /\ session_ids' = Append(session_ids, token.session_id)
            /\ pc' = "await"
            /\ UNCHANGED <<response, returned, outcomes>>
       ELSE /\ Return(get_project_id(token).response, "no_project")
            /\ UNCHANGED <<called_with, session_ids>>
    /\ UNCHANGED body
    /\ UNCHANGED <<locking, outbound, inline, yielded, fed>>
    /\ UNCHANGED <<request, provider, thought_signature_map, max_retries, attempts,
                   token, locals, taken, errors, first_empty_max>>

\* ------------------------------------------------------------------ /v1/chat/completions

\* The 429 of chat_completions_handler (server.rs 152-160)
ChatExhausted(reason) ==
    JsonResponse(StatusTooManyRequests,
                 [error |-> [message |-> "?????????????????: " \o reason,
                             type |-> "all_accounts_exhausted"]])

\* (variant: the chunk that carries finish_reason "stop" is not written)
ImageFrames_without_stop(model, content) ==
    <<[data |-> [done |-> FALSE, id |-> "chatcmpl-<uuid>",
                 object |-> "chat.completion.chunk", model |-> model,
                 choices |-> <<[index |-> 0, delta |-> [content |-> content],
                                finish_reason |-> None]>>]],
      [data |-> DoneChunk]>>
\* The frames of the simulated image stream (server.rs 232-263)
ImageFrames(model, content) ==
    <<[data |-> [done |-> FALSE, id |-> "chatcmpl-<uuid>",
                 object |-> "chat.completion.chunk", model |-> model,
                 choices |-> <<[index |-> 0, delta |-> [content |-> content],
                                finish_reason |-> None]>>]],
      [data |-> [done |-> FALSE, id |-> "chatcmpl-<uuid>",
                 object |-> "chat.completion.chunk", model |-> model,
                 choices |-> <<[index |-> 0, delta |-> [x \in {} |-> None],
                                finish_reason |-> "stop"]>>]],
      [data |-> DoneChunk]>>

\* handle_non_stream_request, Ok arm
handle_non_stream_ok(json) ==
    Success(JsonResponse(StatusOK, process_inline_data(json)))

\* handle_image_stream_request, Ok arm
handle_image_stream_ok(req, json) ==
    Success([status |-> StatusOK, kind |-> "sse",
             body |-> [sse |-> "image",
                       frames |-> ImageFrames(req.model,
                                              ImageContent(process_inline_data(json)))]])

\* handle_stream_request, Ok arm
handle_stream_ok == Success(SseResponse("openai"))

\* The match on the RequestResult in chat_completions_handler (server.rs 147-166)
\* (variant: a Retry gives up without looking at the attempt count)
ChatMatch_gives_up_at_once(result) ==
    CASE result.tag = "Success" -> Return(result.response, "success")
      [] result.tag = "Error" -> Return(result.response, "fatal")
      [] result.tag = "Retry" -> Return(ChatExhausted(result.reason), "exhausted")
ChatMatch(result) ==
    CASE result.tag = "Success" -> Return(result.response, "success")
      [] result.tag = "Error" -> Return(result.response, "fatal")
      [] result.tag = "Retry" ->
            IF attempts >= max_retries
            THEN Return(ChatExhausted(result.reason), "exhausted")
            ELSE Continue("retry")

\* The upstream call of process_request fails with one of the errors msgs.
ChatUpstreamFailsStep(msgs) ==
    /\ pc = "await"
    /\ request.endpoint = "openai"
    /\ \E msg \in msgs :
          /\ errors' = [errors EXCEPT ![attempts] = msg]
          /\ ChatMatch(check_retry_error(msg))
    /\ UNCHANGED body
    /\ UNCHANGED <<locking, outbound, inline, session_ids, yielded, fed>>
    /\ UNCHANGED <<request, provider, thought_signature_map, max_retries, attempts,
                   token, locals, taken, called_with, first_empty_max>>
ChatUpstreamFails == ChatUpstreamFailsStep(CallErrors(UpstreamCall(request)))
ChatUpstreamFailsWide == ChatUpstreamFailsStep(ErrorTexts)

\* The upstream call of process_request answers 2xx.
ChatUpstreamAnswers ==
    /\ pc = "await"
    /\ request.endpoint = "openai"
    /\ IF UpstreamCall(request) = "stream_generate"
       THEN ChatMatch(handle_stream_ok)
       ELSE \E json \in UnaryJsons :
               ChatMatch(IF IsStream(request)
                         THEN handle_image_stream_ok(request, json)
                         ELSE handle_non_stream_ok(json))
    /\ UNCHANGED body
    /\ UNCHANGED <<locking, outbound, inline, session_ids, yielded, fed>>
    /\ UNCHANGED <<request, provider, thought_signature_map, max_retries, attempts,
                   token, locals, taken, called_with, errors, first_empty_max>>

\* ------------------------------------------------------------------ /v1/messages

\* The 429 of the three retry arms (server.rs 639-645, 745-751, 851-860)
AnthropicExhausted(reason) ==
    JsonResponse(StatusTooManyRequests,
                 [type |-> "error",
                  error |-> [type |-> "rate_limit_error",
                             message |-> "Max retries exceeded. Last error: " \o reason]])

\* The 429 of the empty MAX_TOKENS arm (server.rs 807)
AnthropicEmptyExhausted ==
    JsonResponse(StatusTooManyRequests,
                 [error |-> [message |->
                     "Max retries exceeded due to empty MAX_TOKENS responses"]])

\* The match on check_retry_error's result (server.rs 635-651, 741-757, 847-866)
AnthropicMatch(result) ==
    CASE result.tag = "Success" -> Return(result.response, "success")
      [] result.tag = "Error" -> Return(result.response, "fatal")
      [] result.tag = "Retry" ->
            IF attempts >= max_retries
            THEN Return(AnthropicExhausted(result.reason), "exhausted")
            ELSE Continue("retry")

\* stream_generate_anthropic returns Err.
AnthropicUpstreamFails ==
    /\ pc = "await"
    /\ request.endpoint = "anthropic"
    /\ \E msg \in CallErrors("stream_generate_anthropic") :
          /\ errors' = [errors EXCEPT ![attempts] = msg]
          /\ AnthropicMatch(check_retry_error(msg))
    /\ UNCHANGED body
    /\ UNCHANGED <<locking, outbound, inline, session_ids, yielded, fed>>
    /\ UNCHANGED <<request, provider, thought_signature_map, max_retries, attempts,
                   token, locals, taken, called_with, first_empty_max>>

\* stream_generate_anthropic returns Ok(stream).
AnthropicUpstreamAnswers ==
    /\ pc = "await"
    /\ request.endpoint = "anthropic"
    /\ pc' = IF IsStream(request) THEN "peek" ELSE "collect"
    /\ UNCHANGED body
    /\ UNCHANGED <<locking, outbound, inline, session_ids, yielded, fed>>
    /\ UNCHANGED <<request, provider, thought_signature_map, max_retries, attempts,
                   token, locals, response, taken, called_with, returned, outcomes,
                   errors, first_empty_max>>

\* A chunk with finishReason MAX_TOKENS and no text, thought or thoughtSignature.
IsEmptyMaxTokens(e) ==
    /\ e.kind = "data"
    /\ e.finish = "MAX_TOKENS"
    /\ e.text = ""
    /\ ~e.thought
    /\ e.sig = None

\* futures::StreamExt::next(&mut stream) of the peek reads one upstream event
\* (server.rs 631-654); an event that yields no item leaves the peek waiting.
PeekReadStep(record) ==
    /\ pc = "peek"
    /\ reads < (IF record THEN MaxTrace ELSE MaxEvents)
    /\ \E e \in StreamEvents :
          LET items == AnthropicItems(e, request.model) IN
          /\ thought_signature_map' = CaptureSignature(thought_signature_map, e)
          /\ reads' = reads + 1
          /\ upstream' = (IF record THEN Append(upstream, e) ELSE upstream)
          /\ first_empty_max' = (first_empty_max \/ (reads = 0 /\ IsEmptyMaxTokens(e)))
          /\ IF items = <<>>
             THEN UNCHANGED <<pc, response, returned, outcomes, errors, first_chunk>>
             ELSE IF items[1].ok
             THEN /\ first_chunk' = items[1].data
                  /\ Return(SseResponse("anthropic"), "success")
                  /\ UNCHANGED errors
             ELSE /\ errors' = [errors EXCEPT ![attempts] = items[1].err]
                  /\ AnthropicMatch(check_retry_error(items[1].err))
                  /\ UNCHANGED first_chunk
    /\ UNCHANGED body
    /\ UNCHANGED <<locking, outbound, inline, session_ids, yielded, fed>>
    /\ UNCHANGED <<request, provider, max_retries, attempts, token, full_text,
                   stop_reason, taken, called_with>>
PeekRead == PeekReadStep(FALSE)
PeekReadTraced == PeekReadStep(TRUE)

\* The peek finds the stream ended: None => continue (server.rs 653).
PeekEnd ==
    /\ pc = "peek"
    /\ Continue("empty_stream")
    /\ UNCHANGED body
    /\ UNCHANGED <<locking, outbound, inline, session_ids, yielded, fed>>
    /\ UNCHANGED <<request, provider, thought_signature_map, max_retries, attempts,
                   token, locals, taken, called_with, errors, first_empty_max>>

\* stop_reason from a chunk's finish_reason (server.rs 789-795)
StopReason(finish_reason, old) ==
    CASE finish_reason = None -> old
      [] finish_reason = "stop" -> "end_turn"
      [] finish_reason = "length" -> "max_tokens"
      [] OTHER -> "end_turn"

\* (variant: an Err item discards the text collected so far)
CollectReadStep_error_clears_text(record) ==
    /\ pc = "collect"
    /\ reads < (IF record THEN MaxTrace ELSE MaxEvents)
    /\ \E e \in StreamEvents :
          LET items == AnthropicItems(e, request.model) IN
          /\ thought_signature_map' = CaptureSignature(thought_signature_map, e)
          /\ reads' = reads + 1
          /\ upstream' = (IF record THEN Append(upstream, e) ELSE upstream)
          /\ first_empty_max' = (first_empty_max \/ (reads = 0 /\ IsEmptyMaxTokens(e)))
          /\ IF items # <<>> /\ items[1].ok /\ ~items[1].data.done
             THEN /\ full_text' = full_text \o items[1].data.choices[1].delta.content
                  /\ stop_reason' =
                        StopReason(items[1].data.choices[1].finish_reason, stop_reason)
             ELSE IF items # <<>> /\ ~items[1].ok
             THEN full_text' = "" /\ UNCHANGED stop_reason
             ELSE UNCHANGED <<full_text, stop_reason>>
    /\ UNCHANGED body
    /\ UNCHANGED <<locking, outbound, inline, session_ids, yielded, fed>>
    /\ UNCHANGED <<request, provider, pc, max_retries, attempts, token, first_chunk,
                   response, taken, called_with, returned, outcomes, errors>>
\* One turn of `while let Some(chunk_result) = stream.next().await` (server.rs 780-800)
CollectReadStep(record) ==
    /\ pc = "collect"
    /\ reads < (IF record THEN MaxTrace ELSE MaxEvents)
    /\ \E e \in StreamEvents :
          LET items == AnthropicItems(e, request.model) IN
          /\ thought_signature_map' = CaptureSignature(thought_signature_map, e)
          /\ reads' = reads + 1
          /\ upstream' = (IF record THEN Append(upstream, e) ELSE upstream)
          /\ first_empty_max' = (first_empty_max \/ (reads = 0 /\ IsEmptyMaxTokens(e)))
          /\ IF items # <<>> /\ items[1].ok /\ ~items[1].data.done
             THEN /\ full_text' = full_text \o items[1].data.choices[1].delta.content
                  /\ stop_reason' =
                        StopReason(items[1].data.choices[1].finish_reason, stop_reason)
             ELSE UNCHANGED <<full_text, stop_reason>>
    /\ UNCHANGED body
    /\ UNCHANGED <<locking, outbound, inline, session_ids, yielded, fed>>
    /\ UNCHANGED <<request, provider, pc, max_retries, attempts, token, first_chunk,
                   response, taken, called_with, returned, outcomes, errors>>
CollectRead == CollectReadStep(FALSE)
CollectReadTraced == CollectReadStep(TRUE)

\* The Anthropic non-streaming envelope (server.rs 813-828)
AnthropicMessage(model, text, reason) ==
    [id |-> "msg_<uuid>", type |-> "message", role |-> "assistant", model |-> model,
     content |-> <<[type |-> "text", text |-> text]>>,
     stop_reason |-> reason, stop_sequence |-> None,
     usage |-> [input_tokens |-> 0, output_tokens |-> 0]]

\* The stream has ended: the empty MAX_TOKENS check and the message (server.rs 802-843)
CollectEnd ==
    /\ pc = "collect"
    /\ IF full_text = "" /\ stop_reason = "max_tokens"
       THEN IF attempts >= max_retries
            THEN Return(AnthropicEmptyExhausted, "exhausted_empty")
            ELSE Continue("retry_empty")
       ELSE Return(JsonResponse(StatusOK,
                                AnthropicMessage(request.model, full_text, stop_reason)),
                   "success")
    /\ UNCHANGED body
    /\ UNCHANGED <<locking, outbound, inline, session_ids, yielded, fed>>
    /\ UNCHANGED <<request, provider, thought_signature_map, max_retries, attempts,
                   token, locals, taken, called_with, errors, first_empty_max>>

\* ------------------------------------------------------------------ SSE bodies

\* ClaudeStreamConverter::create_message_start
create_message_start(msg_id, model_name) ==
    [event |-> "message_start",
     data |-> [type |-> "message_start",
               message |-> [id |-> msg_id, type |-> "message", role |-> "assistant",
                            model |-> model_name,
                            usage |-> [input_tokens |-> 0, output_tokens |-> 0]]]]

AnthropicStopReason(finish_reason) ==
    CASE finish_reason = "stop" -> "end_turn"
      [] finish_reason = "length" -> "max_tokens"
      [] finish_reason = "content_filter" -> "stop_sequence"
      [] OTHER -> "end_turn"

BlockStart(index, kind) ==
    [event |-> "content_block_start",
     data |-> [type |-> "content_block_start", index |-> index,
               content_block |-> [type |-> kind]]]
BlockDelta(index, kind, text) ==
    [event |-> "content_block_delta",
     data |-> [type |-> "content_block_delta", index |-> index,
               delta |-> IF kind = "thinking"
                         THEN [type |-> "thinking_delta", thinking |-> text]
                         ELSE [type |-> "text_delta", text |-> text]]]
BlockStop(index) ==
    [event |-> "content_block_stop",
     data |-> [type |-> "content_block_stop", index |-> index]]
MessageDelta(reason) ==
    [event |-> "message_delta",
     data |-> [type |-> "message_delta",
               delta |-> [stop_reason |-> reason, stop_sequence |-> None]]]
MessageStop == [event |-> "message_stop", data |-> [type |-> "message_stop"]]

\* ClaudeStreamConverter::process_chunk: the events of one chunk and the
\* converter after it.
process_chunk(conv, json) ==
    LET delta == json.choices[1].delta
        finish_reason == json.choices[1].finish_reason
        kind == IF delta.thought THEN "thinking" ELSE "text"
        has_delta == delta.content # "" \/ delta.thought
        opened ==
            IF ~has_delta THEN [events |-> <<>>, block |-> conv.block, index |-> conv.index]
            ELSE IF conv.block = None
            THEN [events |-> <<BlockStart(conv.index, kind)>>,
                  block |-> kind, index |-> conv.index]
            ELSE IF conv.block # kind
            THEN [events |-> <<BlockStop(conv.index), BlockStart(conv.index + 1, kind)>>,
                  block |-> kind, index |-> conv.index + 1]
            ELSE [events |-> <<>>, block |-> conv.block, index |-> conv.index]
        deltas ==
            IF has_delta THEN <<BlockDelta(opened.index, kind, delta.content)>> ELSE <<>>
        closing ==
            IF finish_reason = None THEN <<>>
            ELSE (IF opened.block # None THEN <<BlockStop(opened.index)>> ELSE <<>>)
                 \o <<MessageDelta(AnthropicStopReason(finish_reason)), MessageStop>>
    IN IF conv.ended THEN [events |-> <<>>, converter |-> conv]
       ELSE [events |-> opened.events \o deltas \o closing,
             converter |-> [block |-> IF finish_reason = None THEN opened.block ELSE None,
                            index |-> opened.index,
                            ended |-> finish_reason # None]]

\* One turn of `for await chunk_result in combined_stream` (server.rs 676-734):
\* the events of an item and the converter after it.
AnthropicBodyItem(conv, item) ==
    IF item.ok /\ ~item.data.done
    THEN [events |-> process_chunk(conv, item.data).events,
          converter |-> process_chunk(conv, item.data).converter,
          fed |-> <<item.data>>]
    ELSE [events |-> <<>>, converter |-> conv, fed |-> <<>>]

\* (variant: the body reads on from the stream, the peeked chunk left out)
AnthropicBodyStart_drops_peeked ==
    /\ pc = "body"
    /\ response.body.sse = "anthropic"
    /\ sent = <<>>
    /\ sent' = <<create_message_start("msg_<uuid>", request.model)>>
    /\ converter' = [block |-> None, index |-> 0, ended |-> FALSE]
    /\ fed' = <<>>
    /\ UNCHANGED <<locking, outbound, inline, session_ids, yielded>>
    /\ UNCHANGED <<request, provider, thought_signature_map, pc, max_retries, attempts,
                   token, locals, response, taken, called_with, returned, outcomes,
                   errors, first_empty_max>>
\* The body starts: message_start, then the peeked chunk, which heads the
\* combined stream (server.rs 665-676).
AnthropicBodyStart ==
    /\ pc = "body"
    /\ response.body.sse = "anthropic"
    /\ sent = <<>>
    /\ LET step == AnthropicBodyItem([block |-> None, index |-> 0, ended |-> FALSE],
                                     OkItem(first_chunk))
       IN /\ sent' = <<create_message_start("msg_<uuid>", request.model)>> \o step.events
          /\ converter' = step.converter
          /\ fed' = step.fed
    /\ UNCHANGED <<locking, outbound, inline, session_ids, yielded>>
    /\ UNCHANGED <<request, provider, thought_signature_map, pc, max_retries, attempts,
                   token, locals, response, taken, called_with, returned, outcomes,
                   errors, first_empty_max>>

\* The body reads the next upstream event.
AnthropicBodyReadStep(record) ==
    /\ pc = "body"
    /\ response.body.sse = "anthropic"
    /\ sent # <<>>
    /\ reads < (IF record THEN MaxTrace ELSE MaxEvents)
    /\ \E e \in StreamEvents :
          LET items == AnthropicItems(e, request.model)
              step == IF items = <<>> THEN [events |-> <<>>, converter |-> converter, fed |-> <<>>]
                      ELSE AnthropicBodyItem(converter, items[1])
          IN /\ thought_signature_map' = CaptureSignature(thought_signature_map, e)
             /\ reads' = reads + 1
             /\ upstream' = (IF record THEN Append(upstream, e) ELSE upstream)
             /\ sent' = sent \o step.events
             /\ converter' = step.converter
             /\ fed' = (IF record THEN fed \o step.fed ELSE fed)
    /\ UNCHANGED <<locking, outbound, inline, session_ids, yielded>>
    /\ UNCHANGED <<request, provider, pc, max_retries, attempts, token, full_text,
                   stop_reason, first_chunk, response, taken, called_with, returned, outcomes,
                   errors, first_empty_max>>
AnthropicBodyRead == AnthropicBodyReadStep(FALSE)
AnthropicBodyReadTraced == AnthropicBodyReadStep(TRUE)

\* (variant: an Err item sends the handler back to the retry loop)
ChatBodyReadStep_retries_on_error(record) ==
    /\ pc = "body"
    /\ response.body.sse = "openai"
    /\ reads < (IF record THEN MaxTrace ELSE MaxEvents)
    /\ \E e \in StreamEvents :
          LET item == OpenAIItem(e, request.model)
          IN /\ reads' = reads + 1
             /\ upstream' = (IF record THEN Append(upstream, e) ELSE upstream)
             /\ IF item.ok
                THEN sent' = Append(sent, [data |-> item.data]) /\ pc' = "body"
                ELSE sent' = sent /\ pc' = "loop"
    /\ UNCHANGED <<locking, outbound, inline, session_ids, yielded, fed>>
    /\ UNCHANGED <<request, provider, thought_signature_map, max_retries, attempts,
                   token, full_text, stop_reason, first_chunk, response, converter,
                   taken, called_with, returned, outcomes, errors, first_empty_max>>
\* The SSE body of handle_stream_request reads the next upstream event
\* (server.rs 293-301); an Err item ends the body.
ChatBodyReadStep(record) ==
    /\ pc = "body"
    /\ response.body.sse = "openai"
    /\ reads < (IF record THEN MaxTrace ELSE MaxEvents)
    /\ \E e \in StreamEvents :
          LET item == OpenAIItem(e, request.model)
          IN /\ reads' = reads + 1
             /\ upstream' = (IF record THEN Append(upstream, e) ELSE upstream)
             /\ IF item.ok
                THEN sent' = Append(sent, [data |-> item.data]) /\ pc' = "body"
                ELSE sent' = sent /\ pc' = "aborted"
    /\ UNCHANGED <<locking, outbound, inline, session_ids, yielded, fed>>
    /\ UNCHANGED <<request, provider, thought_signature_map, max_retries, attempts,
                   token, full_text, stop_reason, first_chunk, response, converter,
                   taken, called_with, returned, outcomes, errors, first_empty_max>>
ChatBodyRead == ChatBodyReadStep(FALSE)
ChatBodyReadTraced == ChatBodyReadStep(TRUE)

\* The simulated image stream yields its three frames.
ImageBody ==
    /\ pc = "body"
    /\ response.body.sse = "image"
    /\ sent' = response.body.frames
    /\ pc' = "done"
    /\ UNCHANGED <<locking, outbound, inline, session_ids, yielded, fed>>
    /\ UNCHANGED <<request, provider, thought_signature_map, max_retries, attempts,
                   token, locals, response, converter, taken, called_with, returned,
                   outcomes, errors, first_empty_max>>

\* The upstream stream ends, and the body with it.
BodyEnd ==
    /\ pc = "body"
    /\ response.body.sse \in {"openai", "anthropic"}
    /\ response.body.sse = "anthropic" => sent # <<>>
    /\ pc' = "done"
    /\ UNCHANGED <<locking, outbound, inline, session_ids, yielded, fed>>
    /\ UNCHANGED <<request, provider, thought_signature_map, max_retries, attempts,
                   token, locals, response, body, taken, called_with, returned, outcomes,
                   errors, first_empty_max>>

\* ------------------------------------------------------------------ specification

Next ==
    \/ HandlerEntry
    \/ GetToken
    \/ Dispatch
    \/ ChatUpstreamFails
    \/ ChatUpstreamAnswers
    \/ AnthropicUpstreamFails
    \/ AnthropicUpstreamAnswers
    \/ PeekRead
    \/ PeekEnd
    \/ CollectRead
    \/ CollectEnd
    \/ AnthropicBodyStart
    \/ AnthropicBodyRead
    \/ ChatBodyRead
    \/ ImageBody
    \/ BodyEnd
    \/ ReloadAccounts

Spec == Init /\ [][Next]_vars

\* The same with progress: the handler task is scheduled whenever it can take
\* a step, and an upstream call or stream read that is awaited returns.
FairSpec == Spec /\ WF_vars(Next)

\* One request served from a pool of one account that is not reloaded, the
\* events the upstream sends being recorded in `upstream`.
TracedInit ==
    /\ Init
    /\ tokens = <<ProxyToken(1, TRUE)>>

TracedNext ==
    \/ HandlerEntry
    \/ GetToken
    \/ Dispatch
    \/ ChatUpstreamFails
    \/ ChatUpstreamAnswers
    \/ AnthropicUpstreamFails
    \/ AnthropicUpstreamAnswers
    \/ PeekReadTraced
    \/ PeekEnd
    \/ CollectReadTraced
    \/ CollectEnd
    \/ AnthropicBodyStart
    \/ AnthropicBodyReadTraced
    \/ ChatBodyReadTraced
    \/ ImageBody
    \/ BodyEnd

TracedSpec == TracedInit /\ [][TracedNext]_vars

\* A /v1/chat/completions request served while other requests are served
\* from the same provider: each get_token of another handler moves the cursor.
SharedInit ==
    /\ Init
    /\ request = [endpoint |-> "openai", model |-> "gemini-2.5-flash", stream |-> "false"]

\* state.token_manager.get_token() in the handler of another request.
OtherRequestGetsToken ==
    /\ Len(tokens) > 0
    /\ pc \in {"loop", "dispatch", "await"}
    /\ current_index' = (current_index + 1) % Len(tokens)
    /\ UNCHANGED body
    /\ UNCHANGED <<locking, outbound, inline, session_ids, yielded, fed>>
    /\ UNCHANGED <<request, tokens, reloads, thought_signature_map, pc, max_retries,
                   attempts, token, locals, response, taken, called_with, returned,
                   outcomes, errors, first_empty_max>>

SharedNext ==
    \/ HandlerEntry
    \/ GetToken
    \/ Dispatch
    \/ ChatUpstreamFails
    \/ ChatUpstreamAnswers
    \/ OtherRequestGetsToken

SharedSpec == SharedInit /\ [][SharedNext]_vars

\* A /v1/chat/completions request whose upstream calls fail in many ways.
ClassifyNext ==
    \/ HandlerEntry
    \/ GetToken
    \/ Dispatch
    \/ ChatUpstreamFailsWide
    \/ ChatUpstreamAnswers

ClassifySpec == SharedInit /\ [][ClassifyNext]_vars

\* ------------------------------------------------------------------ post-processing alone

\* How often process_inline_data is applied in a row.
MaxPasses == 2

\* No request is being handled.
HandlerIdle ==
    /\ HandlerInit
    /\ request = [endpoint |-> "openai", model |-> "gemini-2.5-flash", stream |-> None]
    /\ tokens = <<>>

InlineInit ==
    /\ HandlerIdle
    /\ OutboundIdle
    /\ unary_response \in InlineInputs
    /\ processed = <<>>

\* process_inline_data(response), applied to the upstream response and then
\* to what it returned.
ProcessInlineData ==
    /\ Len(processed) < MaxPasses
    /\ processed' = Append(processed,
                           process_inline_data(IF processed = <<>> THEN unary_response
                                               ELSE Last(processed)))
    /\ UNCHANGED <<unary_response, outbound, locking, handler, thought_signature_map>>

InlineNext == ProcessInlineData

InlineSpec == InlineInit /\ [][InlineNext]_vars

\* ------------------------------------------------------------------ request bodies

\* Upstream calls followed.
MaxCalls == 3

\* str::to_lowercase, on the letters model names are written with
UpperLetters == "ABCDEFGHIJKLMNOPQRSTUVWXYZ"
LowerLetters == "abcdefghijklmnopqrstuvwxyz"
LowerChar(c) ==
    IF \E i \in 1..26 : SubSeq(UpperLetters, i, i) = c
    THEN LET i == CHOOSE i \in 1..26 : SubSeq(UpperLetters, i, i) = c
         IN SubSeq(LowerLetters, i, i)
    ELSE c
RECURSIVE to_lowercase(_)
to_lowercase(s) ==
    IF s = "" THEN ""
    ELSE LowerChar(SubSeq(s, 1, 1)) \o to_lowercase(SubSeq(s, 2, Len(s)))
\* str::starts_with
starts_with(s, p) == Len(s) >= Len(p) /\ SubSeq(s, 1, Len(p)) = p

\* The model of the body of stream_generate_anthropic: the lookup in the
\* mapping, then the conversion to an upstream name (client.rs 72-96).
AnthropicUpstreamModel(model_mapping, model_name) ==
    LET initial_mapped == IF model_name \in DOMAIN model_mapping
                          THEN model_mapping[model_name] ELSE model_name
        lower_name == to_lowercase(initial_mapped)
    IN IF lower_name = "gemini-3-flash" THEN "gemini-3-flash-preview"
       ELSE IF lower_name = "gemini-3-pro-high" THEN "gemini-3-pro-preview"
       ELSE IF starts_with(lower_name, "gemini-") THEN initial_mapped
       ELSE IF Contains(lower_name, "thinking") THEN initial_mapped
       ELSE IF Contains(lower_name, "opus") THEN "gemini-3-pro-preview"
       ELSE initial_mapped

\* The model of the body of stream_generate and of generate (client.rs
\* 437-441, 647-652).
OpenAIUpstreamModel(model) ==
    IF Contains(model, "gemini-3-pro-image") THEN "gemini-3-pro-image" ELSE model

\* convert_anthropic_to_gemini_contents_ext: the signature given to the thought
\* part of the last assistant turn, looked up by responseId or "latest".
LookupSignature(signature_map, rid) ==
    IF signature_map[rid] # None THEN signature_map[rid] ELSE signature_map["latest"]

\* Uuid::new_v4(): the value drawn after `drawn` earlier ones; 122 random bits,
\* taken never to repeat.
Uuid_new_v4(drawn) == drawn + 1

\* (variant: the requestId is made once per client request)
RequestBody_id_per_request(c, req, drawn, model_mapping, signature_map) ==
    [client |-> c, call |-> UpstreamCall(req), requestId |-> c,
     model |-> IF req.endpoint = "anthropic"
               THEN AnthropicUpstreamModel(model_mapping, req.model)
               ELSE OpenAIUpstreamModel(req.model),
     thoughtSignature |-> IF req.endpoint = "anthropic" /\ req.thinking # None
                          THEN LookupSignature(signature_map, req.thinking)
                          ELSE None]
\* request_body of the three client functions (client.rs 100-104, 443-447,
\* 654-658), with the thoughtSignature its contents carry and, for the
\* record, the client whose request it serves.
RequestBody(c, req, drawn, model_mapping, signature_map) ==
    [client |-> c, call |-> UpstreamCall(req), requestId |-> Uuid_new_v4(drawn),
     model |-> IF req.endpoint = "anthropic"
               THEN AnthropicUpstreamModel(model_mapping, req.model)
               ELSE OpenAIUpstreamModel(req.model),
     thoughtSignature |-> IF req.endpoint = "anthropic" /\ req.thinking # None
                          THEN LookupSignature(signature_map, req.thinking)
                          ELSE None]

\* The requests whose bodies are followed; `thinking` is the responseId the
\* thinking part of the last assistant turn refers to.
WireRequests ==
    {[endpoint |-> "openai", model |-> "gemini-3-flash", stream |-> "true",
      thinking |-> None],
     [endpoint |-> "openai", model |-> "gemini-3-flash", stream |-> "false",
      thinking |-> None],
     [endpoint |-> "openai", model |-> "gemini-3-pro-high", stream |-> "false",
      thinking |-> None],
     [endpoint |-> "openai", model |-> "gemini-3-pro-image-16x9", stream |-> "true",
      thinking |-> None],
     [endpoint |-> "anthropic", model |-> "claude-3-5-sonnet-20240620",
      stream |-> "true", thinking |-> "R1"],
     [endpoint |-> "anthropic", model |-> "claude-3-opus-20240229",
      stream |-> "false", thinking |-> None]}

\* The configured mappings.
ModelMappings ==
    {NoMapping,
     [k \in {"claude-3-5-sonnet"} |-> "internal-sonnet"],
     [k \in {"claude-3-5-sonnet-20240620"} |-> "Gemini-3-Pro-High"]}

\* The events that carry a thoughtSignature: one with its responseId at top
\* level, one with it under "response", one without a responseId.
SignatureChunk(wrapped, rid, sig) ==
    [kind |-> "data", wrapped |-> wrapped, text |-> "", thought |-> TRUE,
     sig |-> sig, finish |-> None, rid |-> rid]
SignatureEvents ==
    {SignatureChunk(FALSE, "R1", "S1"), SignatureChunk(TRUE, "R1", "S2"),
     SignatureChunk(FALSE, None, "S2")}

WireInit ==
    /\ HandlerIdle
    /\ InlineIdle
    /\ anthropic_mapping \in ModelMappings
    /\ in_flight \in [1..MaxClients -> WireRequests]
    /\ wire = <<>>
    /\ uuids = 0
    /\ last_signature = [k \in SigKeys |-> None]

\* An attempt of the request of client c sends its upstream call.
SendUpstream(c) ==
    /\ Len(wire) < MaxCalls
    /\ uuids' = uuids + 1
    /\ wire' = Append(wire, RequestBody(c, in_flight[c], uuids, anthropic_mapping,
                                        thought_signature_map))
    /\ UNCHANGED <<anthropic_mapping, in_flight, last_signature, inline, locking, handler,
                   thought_signature_map>>

\* The stream of an Anthropic call yields an event with a thoughtSignature
\* (client.rs 283-294).
SignatureEvent ==
    /\ \E i \in DOMAIN wire : wire[i].call = "stream_generate_anthropic"
    /\ \E e \in SignatureEvents :
          /\ thought_signature_map' = CaptureSignature(thought_signature_map, e)
          /\ last_signature' =
                [last_signature EXCEPT ![IF e.rid # None THEN e.rid ELSE "latest"] = e.sig]
    /\ UNCHANGED <<anthropic_mapping, in_flight, wire, uuids, inline, locking, handler>>

WireNext ==
    \/ \E c \in 1..MaxClients : SendUpstream(c)
    \/ SignatureEvent

WireSpec == WireInit /\ [][WireNext]_vars

\* ------------------------------------------------------------------ hot reload of the mapping

\* AxumServer::update_mapping: under the write lock the whole mapping is
\* replaced (server.rs 32-36). The read guard of an attempt is taken inside the
\* retry loop (server.rs 614) and dropped when the attempt loops on, so the
\* write can come between two attempts of one request.
update_mapping ==
    /\ \E new_mapping \in ModelMappings : anthropic_mapping' = new_mapping
    /\ UNCHANGED <<in_flight, wire, uuids, last_signature, inline, locking, handler,
                   thought_signature_map>>

MappingNext ==
    \/ \E c \in 1..MaxClients : SendUpstream(c)
    \/ update_mapping

MappingSpec == WireInit /\ [][MappingNext]_vars

\* ------------------------------------------------------------------ image requests

\* The /v1/chat/completions requests whose image configuration is followed:
\* model names with and without suffixes, `size`, `quality`, and the keys of
\* `extra` in both spellings; None stands for an absent field.
ImageRequests ==
    [endpoint : {"openai"},
     model : {"gemini-3-pro-image", "gemini-3-pro-image-16x9",
              "gemini-3-pro-image-9x16-4k", "gemini-3-pro-image-3x4-hd",
              "gemini-3-pro-image-4x3", "gemini-3-pro-image-1x1", "gemini-2.5-flash"},
     stream : {"true", "false"},
     size : {None, "1024x1792", "1792x1024", "768x1024", "1024x768", "1024x1024",
             "512x512"},
     quality : {None, "hd", "standard"},
     extra : [aspectRatio : {None, "21:9"}, aspect_ratio : {None, "4:3"},
              imageSize : {None, "4K", "hd", "2K"}, image_size : {None, "4K"}]]

\* let model_suffix_ar = ... (client.rs 376-381, 587-592)
model_suffix_ar(model_name) ==
    IF Contains(model_name, "-16x9") THEN "16:9"
    ELSE IF Contains(model_name, "-9x16") THEN "9:16"
    ELSE IF Contains(model_name, "-4x3") THEN "4:3"
    ELSE IF Contains(model_name, "-3x4") THEN "3:4"
    ELSE IF Contains(model_name, "-1x1") THEN "1:1"
    ELSE None

\* let model_suffix_4k = ... (client.rs 383, 594)
model_suffix_4k(model_name) ==
    Contains(model_name, "-4k") \/ Contains(model_name, "-hd")

\* m.get(a).or(m.get(b)) on `extra`
ExtraGet(extra, a, b) == IF extra[a] # None THEN extra[a] ELSE extra[b]

\* (variant: the model suffix decides the aspect ratio before `size` does)
ImageConfig_suffix_before_size(openai_request) ==
    LET extra_ar == ExtraGet(openai_request.extra, "aspectRatio", "aspect_ratio")
        extra_size == ExtraGet(openai_request.extra, "imageSize", "image_size")
        aspect_ratio ==
            IF extra_ar # None THEN extra_ar
            ELSE IF model_suffix_ar(openai_request.model) # None
            THEN model_suffix_ar(openai_request.model)
            ELSE CASE openai_request.size = "1024x1792" -> "9:16"
                   [] openai_request.size = "1792x1024" -> "16:9"
                   [] openai_request.size = "768x1024" -> "3:4"
                   [] openai_request.size = "1024x768" -> "4:3"
                   [] OTHER -> "1:1"
        is_hd == CASE openai_request.quality = "hd" -> TRUE
                   [] openai_request.quality = None ->
                         model_suffix_4k(openai_request.model)
                   [] OTHER -> FALSE
    IN IF Contains(openai_request.model, "gemini-3-pro-image")
       THEN IF is_hd \/ extra_size = "4K" \/ extra_size = "hd"
            THEN [aspectRatio |-> aspect_ratio, imageSize |-> "4K"]
            ELSE [aspectRatio |-> aspect_ratio]
       ELSE [absent |-> TRUE]
\* The imageConfig of generationConfig (client.rs 385-435, 596-645); a record
\* without aspectRatio stands for a generationConfig without imageConfig.
ImageConfig(openai_request) ==
    LET extra_ar == ExtraGet(openai_request.extra, "aspectRatio", "aspect_ratio")
        extra_size == ExtraGet(openai_request.extra, "imageSize", "image_size")
        aspect_ratio ==
            IF extra_ar # None THEN extra_ar
            ELSE CASE openai_request.size = "1024x1792" -> "9:16"
                   [] openai_request.size = "1792x1024" -> "16:9"
                   [] openai_request.size = "768x1024" -> "3:4"
                   [] openai_request.size = "1024x768" -> "4:3"
                   [] openai_request.size = "1024x1024" -> "1:1"
                   [] openai_request.size = None ->
                         IF model_suffix_ar(openai_request.model) # None
                         THEN model_suffix_ar(openai_request.model) ELSE "1:1"
                   [] OTHER -> "1:1"
        is_hd == CASE openai_request.quality = "hd" -> TRUE
                   [] openai_request.quality = None ->
                         model_suffix_4k(openai_request.model)
                   [] OTHER -> FALSE
    IN IF Contains(openai_request.model, "gemini-3-pro-image")
       THEN IF is_hd \/ extra_size = "4K" \/ extra_size = "hd"
            THEN [aspectRatio |-> aspect_ratio, imageSize |-> "4K"]
            ELSE [aspectRatio |-> aspect_ratio]
       ELSE [absent |-> TRUE]

\* The request body of stream_generate and of generate, with its imageConfig
\* (client.rs 437-460, 647-672).
ImageRequestBody(call, openai_request, drawn) ==
    [client |-> 1, call |-> call, requestId |-> Uuid_new_v4(drawn),
     model |-> OpenAIUpstreamModel(openai_request.model),
     imageConfig |-> ImageConfig(openai_request)]

ImageInit ==
    /\ HandlerIdle
    /\ InlineIdle
    /\ anthropic_mapping = NoMapping
    /\ in_flight \in [{1} -> ImageRequests]
    /\ wire = <<>>
    /\ uuids = 0
    /\ last_signature = [k \in SigKeys |-> None]

\* stream_generate or generate builds the body of the request.
BuildImageBody(call) ==
    /\ Len(wire) < MaxCalls
    /\ uuids' = uuids + 1
    /\ wire' = Append(wire, ImageRequestBody(call, in_flight[1], uuids))
    /\ UNCHANGED <<anthropic_mapping, in_flight, last_signature, inline, locking, handler,
                   thought_signature_map>>

\* generate and stream_generate build the body with the same code.
ImageNext == \E call \in {"generate", "stream_generate"} : BuildImageBody(call)

ImageSpec == ImageInit /\ [][ImageNext]_vars

\* ------------------------------------------------------------------ the lock of the mapping

\* tokio::sync::RwLock is fair: waiters queue first in, first out, so a read()
\* behind a queued write() waits although only read guards are held.
\* read().await of task t: the guard at once when no writer holds the lock and
\* nobody waits, the end of the queue otherwise.
ReadLock(t, then, waiting) ==
    IF ~mapping_lock.writer /\ mapping_lock.queue = <<>>
    THEN /\ mapping_lock' = [mapping_lock EXCEPT !.readers[t] = @ + 1]
         /\ tasks' = [tasks EXCEPT ![t].pc = then]
    ELSE /\ mapping_lock' = [mapping_lock EXCEPT
                                !.queue = Append(@, [task |-> t, mode |-> "read"])]
         /\ tasks' = [tasks EXCEPT ![t].pc = waiting]

\* The requests whose handlers are followed: /v1/messages, stream and not.
LockInit ==
    /\ HandlerIdle
    /\ InlineIdle
    /\ anthropic_mapping \in ModelMappings
    /\ in_flight \in [1..MaxClients -> { r \in WireRequests : r.endpoint = "anthropic" }]
    /\ wire = <<>>
    /\ uuids = 0
    /\ last_signature = [k \in SigKeys |-> None]

\* An attempt of the request of task t: `let mapping_guard =
\* state.anthropic_mapping.read().await` (server.rs 582-614).
AttemptReadsMapping(t) ==
    /\ t \in 1..MaxClients
    /\ tasks[t].pc = "start"
    /\ tasks[t].attempts < MaxAttempts
    /\ ReadLock(t, IF IsStream(in_flight[t]) THEN "call" ELSE "reread", "wait_614")
    /\ UNCHANGED <<outbound, inline, handler, thought_signature_map>>

\* The non-stream branch takes the lock again, the guard of server.rs 614
\* still alive: `let mapping_guard = state.anthropic_mapping.read().await`
\* (server.rs 763).
SecondRead(t) ==
    /\ t \in 1..MaxClients
    /\ tasks[t].pc = "reread"
    /\ ReadLock(t, "call", "wait_763")
    /\ UNCHANGED <<outbound, inline, handler, thought_signature_map>>

\* The waiter at the head of the queue gets the lock: a reader when no writer
\* holds it, the writer when nobody holds it.
LockGranted(t) ==
    /\ mapping_lock.queue # <<>>
    /\ mapping_lock.queue[1].task = t
    /\ ~mapping_lock.writer
    /\ IF mapping_lock.queue[1].mode = "read"
       THEN /\ mapping_lock' = [mapping_lock EXCEPT !.queue = Tail(@),
                                                    !.readers[t] = @ + 1]
            /\ tasks' = [tasks EXCEPT ![t].pc =
                            IF tasks[t].pc = "wait_614" /\ ~IsStream(in_flight[t])
                            THEN "reread" ELSE "call"]
       ELSE /\ \A r \in Tasks : mapping_lock.readers[r] = 0
            /\ mapping_lock' = [mapping_lock EXCEPT !.queue = Tail(@), !.writer = TRUE]
            /\ tasks' = [tasks EXCEPT ![t].pc = "writing"]
    /\ UNCHANGED <<outbound, inline, handler, thought_signature_map>>

\* stream_generate_anthropic(.., &mapping_guard, ..).await returns Ok(stream)
\* (server.rs 616-627, 765-775); the handler goes on to read the stream - the
\* peek of server.rs 631 or the collection of server.rs 780 - the guards held.
UpstreamAnswers(t) ==
    /\ t \in 1..MaxClients
    /\ tasks[t].pc = "call"
    /\ tasks' = [tasks EXCEPT ![t].pc = IF IsStream(in_flight[t]) THEN "peek"
                                        ELSE "collect"]
    /\ UNCHANGED <<mapping_lock, outbound, inline, handler, thought_signature_map>>

\* The attempt is over - the call failed, or the stream was read - and the
\* handler returns or loops on (`continue`); the guards of the iteration are
\* dropped either way.
AttemptOver(t) ==
    /\ t \in 1..MaxClients
    /\ tasks[t].pc \in {"call", "peek", "collect"}
    /\ mapping_lock' = [mapping_lock EXCEPT !.readers[t] = 0]
    /\ \E next \in {"start", "returned"} :
          tasks' = [tasks EXCEPT ![t] = [pc |-> next, attempts |-> @.attempts + 1]]
    /\ UNCHANGED <<outbound, inline, handler, thought_signature_map>>

\* update_mapping: `self.mapping_state.write().await` (server.rs 33).
WriteLock ==
    /\ tasks[0].pc = "start"
    /\ tasks[0].attempts < MaxReloads
    /\ IF ~mapping_lock.writer /\ mapping_lock.queue = <<>>
          /\ \A r \in Tasks : mapping_lock.readers[r] = 0
       THEN /\ mapping_lock' = [mapping_lock EXCEPT !.writer = TRUE]
            /\ tasks' = [tasks EXCEPT ![0].pc = "writing"]
       ELSE /\ mapping_lock' = [mapping_lock EXCEPT
                                   !.queue = Append(@, [task |-> 0, mode |-> "write"])]
            /\ tasks' = [tasks EXCEPT ![0].pc = "wait_write"]
    /\ UNCHANGED <<outbound, inline, handler, thought_signature_map>>

\* update_mapping: `*mapping = new_mapping`, and the guard is dropped
\* (server.rs 34-36).
WriteUnlock ==
    /\ tasks[0].pc = "writing"
    /\ \E new_mapping \in ModelMappings : anthropic_mapping' = new_mapping
    /\ mapping_lock' = [mapping_lock EXCEPT !.writer = FALSE]
    /\ tasks' = [tasks EXCEPT ![0] = [pc |-> "start", attempts |-> @.attempts + 1]]
    /\ UNCHANGED <<in_flight, wire, uuids, last_signature, inline, handler,
                   thought_signature_map>>

LockNext ==
    \/ \E t \in 1..MaxClients : AttemptReadsMapping(t)
    \/ \E t \in 1..MaxClients : SecondRead(t)
    \/ \E t \in Tasks : LockGranted(t)
    \/ \E t \in 1..MaxClients : UpstreamAnswers(t)
    \/ \E t \in 1..MaxClients : AttemptOver(t)
    \/ WriteLock
    \/ WriteUnlock

\* Every task is scheduled, every upstream call and read returns, and the lock
\* is handed to the waiter at the head of its queue once it can be.
LockSpec == LockInit /\ [][LockNext]_vars /\ WF_vars(LockNext)

\* ------------------------------------------------------------------ transformers alone

\* Upstream events followed through a transformer.
MaxTransformed == 1

TransformInit ==
    /\ HandlerIdle
    /\ OutboundIdle
    /\ InlineIdle

\* The closure of stream_generate_anthropic handles one upstream event: the
\* items it yields, and its write to the signature cache.
AnthropicTransform ==
    /\ Len(upstream) < MaxTransformed
    /\ \E e \in UpstreamEvents :
          /\ upstream' = Append(upstream, e)
          /\ yielded' = Append(yielded, [by |-> "stream_generate_anthropic",
                                     out |-> AnthropicItems(e, "claude-3-5-sonnet-20240620"),
                                     cache |-> thought_signature_map])
          /\ thought_signature_map' = CaptureSignature(thought_signature_map, e)
    /\ UNCHANGED <<request, provider, pc, max_retries, attempts, token, reads, full_text,
                   stop_reason, first_chunk, response, body, taken, called_with,
                   returned, outcomes, errors, first_empty_max, session_ids, outbound,
                   inline, locking, fed>>

\* The closure of stream_generate handles one upstream event.
OpenAITransform ==
    /\ Len(upstream) < MaxTransformed
    /\ \E e \in UpstreamEvents :
          /\ upstream' = Append(upstream, e)
          /\ yielded' = Append(yielded, [by |-> "stream_generate",
                                     out |-> <<OpenAIItem(e, "gemini-2.5-flash")>>,
                                     cache |-> thought_signature_map])
    /\ UNCHANGED <<request, provider, thought_signature_map, pc, max_retries, attempts,
                   token, reads, full_text, stop_reason, first_chunk, response, body,
                   taken, called_with, returned, outcomes, errors, first_empty_max,
                   session_ids, outbound, inline, locking, fed>>

TransformNext ==
    \/ AnthropicTransform
    \/ OpenAITransform

TransformSpec == TransformInit /\ [][TransformNext]_vars

\* ------------------------------------------------------------------ properties


\* How an attempt that loops on, and one that returns a response, can end.
ContinueOutcomes == {"retry", "retry_empty", "empty_stream"}
ReturnOutcomes ==
    {"success", "fatal", "exhausted", "exhausted_empty", "no_token", "no_project"}

AnthropicStream == request.endpoint = "anthropic" /\ IsStream(request)

\* {"type":"error","error":{"type":..,"message":..}}
IsAnthropicError(b) ==
    /\ DOMAIN b = {"type", "error"}
    /\ b.type = "error"
    /\ DOMAIN b.error = {"type", "message"}

\* {"error":{"message":..,"type":..}}
IsOpenAIError(b) ==
    /\ DOMAIN b = {"error"}
    /\ DOMAIN b.error = {"message", "type"}

\* C1: the accounts consulted for one request - tokens taken from the provider
\* and upstream calls dispatched - never exceed max(pool_size, 1), the value the
\* handler read on entry.
C1_AccountsBounded ==
    pc # "entry" => (taken <= max_retries /\ calls <= max_retries)

\* C2: on the Anthropic streaming endpoint, once the first upstream event of an
\* attempt was an empty MAX_TOKENS, the one response the client gets is a 200
\* whose stream is not empty or a 429; no other status.
C2_PeekBeforeCommit ==
    (AnthropicStream /\ first_empty_max /\ returned > 0) =>
        /\ returned = 1
        /\ response.status \in {StatusOK, StatusTooManyRequests}
        /\ (response.status = StatusOK /\ pc = "done") => Len(sent) > 1

\* The state of a request with respect to its response: none before the handler
\* returned, one after; the one is a success or an error; every attempt before
\* it looped on without a response.
C3_OneResponseState ==
    /\ returned \in {0, 1}
    /\ (returned = 1) = (pc \in {"body", "done", "aborted"})
    /\ returned = 0 =>
          /\ response = NoResponse
          /\ \A i \in DOMAIN outcomes : outcomes[i] \in ContinueOutcomes
    /\ returned = 1 =>
          /\ response.status \in {StatusOK, StatusTooManyRequests,
                                  StatusInternalServerError, StatusServiceUnavailable}
          /\ Last(outcomes) \in ReturnOutcomes
          /\ (Last(outcomes) = "success") = (response.status = StatusOK)
          /\ \A i \in 1..(Len(outcomes) - 1) : outcomes[i] \in ContinueOutcomes
C5_ExhaustedIs429 ==
    /\ (returned = 1 /\ Last(outcomes) \in {"exhausted", "exhausted_empty"}) =>
          /\ response.status = StatusTooManyRequests
          /\ attempts >= max_retries
          /\ IF request.endpoint = "anthropic"
             THEN /\ IsAnthropicError(response.body)
                  /\ response.body.error.type = "rate_limit_error"
                  /\ SubSeq(response.body.error.message, 1, 34)
                        = "Max retries exceeded. Last error: "
                  /\ Contains(response.body.error.message, errors[Len(outcomes)])
             ELSE /\ IsOpenAIError(response.body)
                  /\ response.body.error.type = "all_accounts_exhausted"
                  /\ Contains(response.body.error.message, errors[Len(outcomes)])
    /\ (returned = 1 /\ response.status = StatusTooManyRequests) =>
          attempts >= max_retries

\* C6: an EmptyFinish failure is always classified Retry: the attempt whose
\* error is the transformer's empty-content error loops on or gives up with 429,
\* it is never surfaced as a fatal error.
C6_EmptyFinishIsRetry ==
    \A i \in DOMAIN outcomes :
        (errors[i] \in {EmptyFinishError("length"), EmptyFinishError("stop")}) =>
            outcomes[i] \in {"retry", "exhausted"}

\* C7 as stated: no token means 503 with error type "no_accounts" on both
\* endpoints, and no upstream call for that attempt.
C7_NoAccountsEverywhere ==
    (returned = 1 /\ Last(outcomes) = "no_token") =>
        /\ response.status = StatusServiceUnavailable
        /\ response.body.error.type = "no_accounts"
        /\ calls = Len(outcomes) - 1

\* C7, amended: no token - at the first or at a later attempt - means 503 and no
\* upstream call for that attempt; the error type is "no_accounts" on
\* /v1/chat/completions and "overloaded_error" on /v1/messages.
C7_NoTokenIs503 ==
    (returned = 1 /\ Last(outcomes) = "no_token") =>
        /\ response.status = StatusServiceUnavailable
        /\ response.body.error.type =
              (IF request.endpoint = "openai" THEN "no_accounts" ELSE "overloaded_error")
        /\ calls = Len(outcomes) - 1
        /\ taken = Len(outcomes) - 1
\* The pool was emptied after a retried attempt: 503 at the second attempt.
C7_Witness ==
    /\ returned = 1
    /\ outcomes = <<"retry", "no_token">>
    /\ request.endpoint = "openai"
    /\ calls = 1

\* The response to a token without project_id.
C8_NoProjectState ==
    (returned = 1 /\ Last(outcomes) = "no_project") =>
        /\ response.status = StatusInternalServerError
        /\ response.body.error.type = "config_error"
        /\ ~token.project_id
        /\ taken = Len(outcomes)
        /\ calls = Len(outcomes) - 1
        /\ pc = "done"
\* C8: a token without project_id ends the request at once with 500
\* config_error: no upstream call for that token, no further token, no retry, on
\* every endpoint and mode.
C8_MissingProjectIdEnds ==
    /\ []C8_NoProjectState
    /\ [][(pc = "dispatch" /\ ~token.project_id /\ pc' # "dispatch") =>
            /\ pc' = "done"
            /\ returned' = 1
            /\ response'.status = StatusInternalServerError
            /\ called_with' = called_with
            /\ taken' = taken]_vars
\* The second token of a streaming /v1/messages request has no project_id.
C8_Witness ==
    /\ pc = "done"
    /\ outcomes = <<"retry", "no_project">>
    /\ AnthropicStream
    /\ calls = 1
    /\ taken = 2

\* C9: every error response has the shape of the endpoint's dialect.
C9_ErrorDialect ==
    (returned = 1 /\ response.status # StatusOK) =>
        IF request.endpoint = "anthropic"
        THEN IsAnthropicError(response.body)
        ELSE IsOpenAIError(response.body)

\* An OpenAI chat-completion object / chunk frame, an Anthropic message / event.
IsOpenAICompletion(b) ==
    /\ {"object", "choices"} \subseteq DOMAIN b
    /\ b.object = "chat.completion"
IsOpenAIFrame(f) ==
    /\ DOMAIN f = {"data"}
    /\ f.data.done \/ f.data.object = "chat.completion.chunk"
IsAnthropicMessage(b) ==
    /\ {"type", "role", "content"} \subseteq DOMAIN b
    /\ b.type = "message"
IsAnthropicFrame(f) ==
    /\ DOMAIN f = {"event", "data"}
    /\ f.event \in {"message_start", "content_block_start", "content_block_delta",
                    "content_block_stop", "message_delta", "message_stop"}
    /\ f.data.type = f.event

\* C10: the envelope of a success response is that of the endpoint's dialect:
\* an OpenAI chat-completion object or chunk frames on /v1/chat/completions, an
\* Anthropic message or events on /v1/messages, never the upstream's JSON.
C10_SuccessDialect ==
    (returned = 1 /\ response.status = StatusOK) =>
        IF response.kind = "json"
        THEN IF request.endpoint = "openai"
             THEN IsOpenAICompletion(response.body)
             ELSE IsAnthropicMessage(response.body)
        ELSE \A i \in DOMAIN sent :
                IF request.endpoint = "openai"
                THEN IsOpenAIFrame(sent[i])
                ELSE IsAnthropicFrame(sent[i])

\* ------------------------------------------------------------------ stream properties

\* The item the Anthropic transformer yields for the i-th recorded event is an
\* Err; it is an Ok.
YieldsErr(i) ==
    LET items == AnthropicItems(upstream[i], request.model)
    IN items # <<>> /\ ~items[1].ok
YieldsOk(i) ==
    LET items == AnthropicItems(upstream[i], request.model)
    IN items # <<>> /\ items[1].ok

\* A committed Anthropic SSE response whose body has met a stream error: the
\* peeked chunk is the first item, so every Err recorded came after it.
BodyErrorSeen ==
    /\ AnthropicStream
    /\ pc = "body"
    /\ sent # <<>>
    /\ \E i \in DOMAIN upstream : YieldsErr(i)

\* C11: once the SSE response of the Anthropic streaming endpoint has started,
\* a later stream error ends it: after the error no further event is emitted,
\* no token is taken and no upstream call is made.
C11_ErrorEndsStream ==
    [][BodyErrorSeen =>
          /\ sent' = sent
          /\ taken' = taken
          /\ called_with' = called_with]_vars

\* The upstream's whole stream was a nonempty text answer: text chunks without
\* finishReason, then a last chunk with a terminal finishReason, which carries
\* text or - when the finishReason comes in a chunk of its own - none.
TextAnswer ==
    /\ upstream # <<>>
    /\ \A i \in DOMAIN upstream :
          /\ upstream[i].kind = "data"
          /\ ~upstream[i].thought
          /\ upstream[i].sig = None
          /\ i < Len(upstream) => (upstream[i].finish = None /\ upstream[i].text # "")
    /\ Last(upstream).finish \in {"STOP", "MAX_TOKENS"}
    /\ \E i \in DOMAIN upstream : upstream[i].text # ""

\* message_start, content_block_start, content_block_delta+, content_block_stop,
\* message_delta, message_stop
TextStreamGrammar(frames) ==
    LET n == Len(frames) IN
    /\ n >= 6
    /\ frames[1].event = "message_start"
    /\ frames[2].event = "content_block_start"
    /\ \A i \in 3..(n - 3) : frames[i].event = "content_block_delta"
    /\ frames[n - 2].event = "content_block_stop"
    /\ frames[n - 1].event = "message_delta"
    /\ frames[n].event = "message_stop"

\* C12: a committed Anthropic streaming response whose upstream produced a
\* nonempty text answer ending with a terminal finishReason (also in a final
\* chunk of its own) emits exactly message_start, content_block_start,
\* content_block_delta+, content_block_stop, message_delta, message_stop.
C12_TextStreamEvents ==
    (AnthropicStream /\ pc = "done" /\ returned = 1 /\ response.status = StatusOK
        /\ TextAnswer) =>
        TextStreamGrammar(sent)

\* The upstream's whole stream had no text and finished with MAX_TOKENS.
NoTextMaxTokens ==
    /\ upstream # <<>>
    /\ \A i \in DOMAIN upstream :
          /\ upstream[i].kind = "data"
          /\ upstream[i].text = ""
          /\ i < Len(upstream) => upstream[i].finish = None
    /\ Last(upstream).finish = "MAX_TOKENS"

\* C13: on the Anthropic non-streaming endpoint an attempt whose upstream stream
\* yields no text and finishes with MAX_TOKENS is not answered with a 200
\* message: the handler loops to the next account, or gives up with 429 when
\* attempts >= N.
C13_EmptyMaxTokensNotReturned ==
    (request.endpoint = "anthropic" /\ ~IsStream(request) /\ pc \in {"loop", "done"}
        /\ outcomes # <<>> /\ NoTextMaxTokens) =>
        \/ Last(outcomes) = "retry_empty" /\ attempts < max_retries /\ returned = 0
        \/ /\ Last(outcomes) = "exhausted_empty"
           /\ attempts >= max_retries
           /\ response.status = StatusTooManyRequests

\* A streaming /v1/chat/completions request for a model that is no image model,
\* its SSE response committed.
OpenAIStreamBody ==
    /\ request.endpoint = "openai"
    /\ IsStream(request)
    /\ ~IsImageModel(request)
    /\ pc \in {"body", "done", "aborted"}

\* The delta.content of the chunk frames, concatenated; the first-part texts of
\* the data events, concatenated.
RECURSIVE ConcatContent(_)
ConcatContent(frames) ==
    IF frames = <<>> THEN ""
    ELSE (IF Head(frames).data.done THEN ""
          ELSE Head(frames).data.choices[1].delta.content)
         \o ConcatContent(Tail(frames))
RECURSIVE ConcatText(_)
ConcatText(events) ==
    IF events = <<>> THEN ""
    ELSE (IF Head(events).kind = "data" THEN Head(events).text ELSE "")
         \o ConcatText(Tail(events))

\* An event the transformer cannot turn into a chunk.
FailedEvent(e) == e.kind \in {"bad_json", "sse_err"}

\* The i-th frame is the i-th event's: [DONE] for [DONE], else a chunk with the
\* event's text and the mapping of its finishReason.
FrameOfEvent(f, e) ==
    IF e.kind = "done" THEN f.data.done
    ELSE /\ e.kind = "data"
         /\ ~f.data.done
         /\ f.data.object = "chat.completion.chunk"
         /\ f.data.choices[1].delta.content = e.text
         /\ f.data.choices[1].finish_reason =
               (CASE e.finish = "STOP" -> "stop"
                  [] e.finish = "MAX_TOKENS" -> "length"
                  [] e.finish \in {"SAFETY", "RECITATION"} -> "content_filter"
                  [] OTHER -> None)

\* C14 as stated: one downstream frame per upstream event, whatever the events.
C14_OneFramePerEvent ==
    OpenAIStreamBody => Len(sent) = Len(upstream)

\* C14, amended: up to the first event that fails (data that is no JSON, an
\* error of the event source) the OpenAI stream emits one frame per upstream
\* event, in upstream order, [DONE] unchanged; the failing event ends the body
\* without a frame; so the concatenated delta.content is the concatenation of
\* the events' texts and the last finish_reason maps the last finishReason.
C14_FramesFollowEvents ==
    OpenAIStreamBody =>
        LET n == Len(sent) IN
        /\ \A i \in 1..n : FrameOfEvent(sent[i], upstream[i])
        /\ IF pc = "aborted"
           THEN Len(upstream) = n + 1 /\ FailedEvent(upstream[n + 1])
           ELSE Len(upstream) = n
        /\ ConcatContent(sent) = ConcatText(SubSeq(upstream, 1, n))
\* The single chunk {text: "Hi", finishReason: STOP} gave content "Hi", stop.
C14_Witness ==
    /\ OpenAIStreamBody
    /\ pc = "done"
    /\ upstream = <<Chunk("Hi", FALSE, None, "STOP")>>
    /\ ConcatContent(sent) = "Hi"
    /\ Last(sent).data.choices[1].finish_reason = "stop"

\* ------------------------------------------------------------------ image streams

ImageStream ==
    request.endpoint = "openai" /\ IsStream(request) /\ IsImageModel(request)

\* How the handler ends an attempt whose upstream call returned Err(msg).
ClassifiedOutcome(i) ==
    LET result == check_retry_error(errors[i])
    IN IF result.tag = "Error" THEN "fatal"
       ELSE IF i >= max_retries THEN "exhausted" ELSE "retry"

\* The three frames of a simulated image stream, in order.
ThreeImageFrames(frames) ==
    /\ Len(frames) = 3
    /\ ~frames[1].data.done
    /\ DOMAIN frames[1].data.choices[1].delta = {"content"}
    /\ frames[1].data.choices[1].finish_reason = None
    /\ ~frames[2].data.done
    /\ frames[2].data.choices[1].finish_reason = "stop"
    /\ frames[3].data = DoneChunk

\* C15: a streaming OpenAI request for an image model calls the unary entry
\* point, once per attempt that reaches the upstream (an attempt is at its
\* project-id check, or has made exactly one call); when the call succeeds the
\* client receives exactly three frames - a content chunk with finish_reason
\* null, a chunk with finish_reason "stop", then [DONE]; when the call fails no
\* frame is written and the attempt ends as check_retry_error classifies the
\* error: fatal, or a retry that is the 429 once the attempts are used up.
C15_ImageStreamUnary ==
    ImageStream =>
        /\ UpstreamCall(request) = "generate"
        /\ pc \in {"await", "body"} => calls = attempts
        /\ pc = "dispatch" => calls = attempts - 1
        /\ (pc \in {"loop", "done"} /\ outcomes # <<>>
              /\ Last(outcomes) \notin {"no_token", "no_project"})
           => calls = attempts /\ Len(outcomes) = attempts
        /\ (outcomes # <<>> /\ Last(outcomes) = "success")
           => /\ errors[attempts] = None
              /\ pc = "body" => sent = <<>>
              /\ pc = "done" => ThreeImageFrames(sent) /\ response.status = StatusOK
        /\ \A i \in 1..Len(outcomes) :
              errors[i] # None
              => /\ outcomes[i] = ClassifiedOutcome(i)
                 /\ i = Len(outcomes) => sent = <<>>
                 /\ (i = Len(outcomes) /\ outcomes[i] = "fatal")
                    => response = check_retry_error(errors[i]).response
                 /\ (i = Len(outcomes) /\ outcomes[i] = "exhausted")
                    => response.status = StatusTooManyRequests

\* C15 witness: an image stream request whose first call failed and was
\* retried, and whose second call succeeded, has delivered its three frames.
C15_Witness ==
    /\ ImageStream
    /\ pc = "done"
    /\ attempts = 2
    /\ calls = 2
    /\ outcomes = <<"retry", "success">>
    /\ errors[1] # None
    /\ Len(sent) = 3

\* ------------------------------------------------------------------ inline data

ThinkingRef(b) == in_flight[b.client].thinking

\* C17: once an Anthropic stream has processed an event with responseId R and
\* thoughtSignature S, an Anthropic request whose last assistant turn has a
\* thinking part referring to R is sent upstream with thoughtSignature S, S
\* being the signature of the latest event with responseId R.
C17_SignatureForwarded ==
    [][(/\ Len(wire') = Len(wire) + 1
        /\ ThinkingRef(Last(wire')) # None
        /\ last_signature[ThinkingRef(Last(wire'))] # None)
       => Last(wire').thoughtSignature = last_signature[ThinkingRef(Last(wire'))]]_vars

\* The model the client asked for in the request behind a body.
RequestedModel(b) == in_flight[b.client].model

\* C18: on the OpenAI path, stream and non-stream, a request for
\* "gemini-3-flash" is sent upstream as "gemini-3-flash-preview" and one for
\* "gemini-3-pro-high" as "gemini-3-pro-preview".
C18_OpenAIAlias ==
    \A i \in DOMAIN wire :
        wire[i].call \in {"stream_generate", "generate"}
        => /\ RequestedModel(wire[i]) = "gemini-3-flash"
              => wire[i].model = "gemini-3-flash-preview"
           /\ RequestedModel(wire[i]) = "gemini-3-pro-high"
              => wire[i].model = "gemini-3-pro-preview"

\* The spec's alias table, first match wins.
AliasTable(name) ==
    LET lower_name == to_lowercase(name)
    IN IF lower_name = "gemini-3-flash" THEN "gemini-3-flash-preview"
       ELSE IF lower_name = "gemini-3-pro-high" THEN "gemini-3-pro-preview"
       ELSE IF Contains(lower_name, "gemini-") THEN name
       ELSE IF Contains(lower_name, "thinking") THEN name
       ELSE IF Contains(lower_name, "sonnet") THEN "gemini-3-pro-preview"
       ELSE IF Contains(lower_name, "haiku") THEN "gemini-2.0-flash-exp"
       ELSE IF Contains(lower_name, "opus") THEN "gemini-3-pro-preview"
       ELSE IF Contains(lower_name, "claude") THEN "gemini-2.5-flash-thinking"
       ELSE name

\* The keys of the mapping that are substrings of the requested model.
SubstringKeys(b) ==
    { k \in DOMAIN anthropic_mapping : Contains(RequestedModel(b), k) }

\* C19: on the Anthropic path the model of the upstream body comes from a
\* mapping entry whose key is a substring of the requested model, whenever
\* there is one: with {claude-3-5-sonnet: internal-sonnet} the request model
\* claude-3-5-sonnet-20240620 resolves to internal-sonnet and is sent as
\* gemini-3-pro-preview.
C19_SubstringMapping ==
    \A i \in DOMAIN wire :
        (wire[i].call = "stream_generate_anthropic" /\ SubstringKeys(wire[i]) # {})
        => \E k \in SubstringKeys(wire[i]) :
              wire[i].model = AliasTable(anthropic_mapping[k])

\* C20: no two upstream calls - attempts of one request or calls of requests
\* served at the same time, through any of the three client functions -
\* carry the same requestId.
C20_FreshRequestIds ==
    \A i, j \in DOMAIN wire : i # j => wire[i].requestId # wire[j].requestId

\* C20 witness: three calls have been sent, two of them attempts of the same
\* request, the third for another client through another client function.
C20_Witness ==
    /\ Len(wire) = 3
    /\ wire[1].client = wire[3].client
    /\ wire[2].client # wire[1].client
    /\ wire[2].call # wire[1].call

\* ------------------------------------------------------------------ session ids

\* C21 as stated: all upstream calls made for one client request carry the
\* same sessionId, whatever account each attempt used.
C21_OneSessionPerRequest ==
    \A i, j \in DOMAIN session_ids : session_ids[i] = session_ids[j]

\* C21: the sessionId of every upstream call is the session_id of the account
\* the attempt was made with; it is not made per attempt, so calls of one
\* request with the same account carry the same sessionId.
C21_SessionFollowsAccount ==
    /\ Len(session_ids) = Len(called_with)
    /\ \A i \in DOMAIN session_ids : session_ids[i] = SessionIdOf(called_with[i])
    /\ \A i, j \in DOMAIN session_ids :
          called_with[i] = called_with[j] => session_ids[i] = session_ids[j]

\* C21 witness: a request has made three calls, the first two with different
\* accounts and the third, after the pool was reloaded, with the account of
\* the first.
C21_Witness ==
    /\ Len(session_ids) = 3
    /\ called_with[1] # called_with[2]
    /\ session_ids[1] # session_ids[2]
    /\ called_with[3] = called_with[1]
    /\ session_ids[3] = session_ids[1]

\* ------------------------------------------------------------------ shared provider

\* The accounts of the pool, and those the request has called the upstream with.
PoolAccounts == { tokens[k].email : k \in DOMAIN tokens }
TriedAccounts == { called_with[i] : i \in DOMAIN called_with }

\* C22: within the attempts of one request no account is used twice, also
\* while other requests take tokens from the same provider, and a request
\* that gives up with 429 has tried every account of the pool.
C22_AccountsTriedOnce ==
    /\ \A i, j \in DOMAIN called_with : i # j => called_with[i] # called_with[j]
    /\ (outcomes # <<>> /\ Last(outcomes) = "exhausted") => TriedAccounts = PoolAccounts

\* ------------------------------------------------------------------ failure classifier

\* The substrings the classifier is said to retry on.
RetrySubstrings ==
    {"404", "NOT_FOUND", "403", "PERMISSION_DENIED", "429", "RESOURCE_EXHAUSTED",
     "QUOTA_EXHAUSTED", "RATE_LIMIT_EXCEEDED", "The request has been rate limited",
     "closed connection", "error sending request", "operation timed out"}
HasRetrySubstring(msg) == \E p \in RetrySubstrings : Contains(msg, p)

AnthropicChunk(k) ==
    /\ yielded[k].by = "stream_generate_anthropic"
    /\ upstream[k].kind = "data"

\* A chunk without text, thought and thoughtSignature.
NoContent(e) == e.text = "" /\ ~e.thought /\ e.sig = None

\* C24: the Anthropic transformer drops a chunk (no item, no error) exactly
\* when it has no text, no thought, no thoughtSignature and no finishReason;
\* a chunk without content whose finishReason is STOP or MAX_TOKENS yields
\* the EmptyFinish error; every other chunk yields exactly one chunk.
C24_EmptyChunkPolicy ==
    \A k \in DOMAIN yielded :
        AnthropicChunk(k)
        => LET e == upstream[k]
               out == yielded[k].out
           IN /\ out = <<>> <=> (NoContent(e) /\ e.finish = None)
              /\ (NoContent(e) /\ e.finish \in {"STOP", "MAX_TOKENS"})
                 => (Len(out) = 1 /\ ~out[1].ok)
              /\ ~(NoContent(e) /\ e.finish \in {None, "STOP", "MAX_TOKENS"})
                 => (Len(out) = 1 /\ out[1].ok)

\* The cache as the k-th transformed event left it.
CacheAfter(k) ==
    IF k = Len(yielded) THEN thought_signature_map ELSE yielded[k + 1].cache

\* C25: a chunk of an Anthropic stream whose first part carries a
\* thoughtSignature S writes S into the cache under the event's responseId
\* when it has one and under "latest" only when it has none; a chunk without
\* a thoughtSignature leaves the cache unchanged.
C25_SignatureCapture ==
    \A k \in DOMAIN yielded :
        AnthropicChunk(k)
        => LET e == upstream[k]
               before == yielded[k].cache
               key == IF e.rid # None THEN e.rid ELSE "latest"
           IN IF e.sig # None
              THEN CacheAfter(k) = [before EXCEPT ![key] = e.sig]
              ELSE CacheAfter(k) = before

\* The same fields in the other schema variant: top level <-> under `response`.
Twin(e) == [e EXCEPT !.wrapped = ~e.wrapped]

\* C26: both stream transformers treat an upstream event with its fields at
\* top level and the same fields wrapped under `response` alike: the same
\* items (chunk text, thought flags, finish_reason and id, or the same drop or
\* empty-finish error) and the same cache write (key and value).
C26_SchemaVariantsEquivalent ==
    \A k \in DOMAIN yielded :
        upstream[k].kind = "data"
        => LET e == upstream[k]
               before == yielded[k].cache
           IN IF yielded[k].by = "stream_generate_anthropic"
              THEN /\ yielded[k].out = AnthropicItems(Twin(e), "claude-3-5-sonnet-20240620")
                   /\ CacheAfter(k) = CaptureSignature(before, Twin(e))
              ELSE /\ yielded[k].out = <<OpenAIItem(Twin(e), "gemini-2.5-flash")>>
                   /\ CacheAfter(k) = before

\* ------------------------------------------------------------------ peek properties

\* The chunks the Anthropic transformer produces for the first n recorded
\* events of the attempt: the Ok items other than the [DONE] sentinel, in order.
RECURSIVE ProducedChunks(_)
ProducedChunks(n) ==
    IF n = 0 THEN <<>>
    ELSE LET items == AnthropicItems(upstream[n], request.model)
         IN IF items # <<>> /\ items[1].ok /\ ~items[1].data.done
            THEN Append(ProducedChunks(n - 1), items[1].data)
            ELSE ProducedChunks(n - 1)

\* The 200 of the Anthropic streaming endpoint has been committed.
AnthropicCommitted ==
    /\ AnthropicStream
    /\ pc \in {"body", "done", "aborted"}
    /\ response.kind = "sse"

\* C27: the peek of the Anthropic streaming path buffers one element and loses
\* nothing. When the 200 is committed, the one item read from the transformed
\* stream is the peeked chunk (the events read before it yielded no item, and
\* nothing was read after it); once the body runs, the chunks handed to the
\* converter are exactly the chunks the transformer produced, the peeked one
\* first, in order, none dropped or duplicated.
C27_PeekLosesNothing ==
    AnthropicCommitted =>
        IF sent = <<>>
        THEN /\ fed = <<>>
             /\ upstream # <<>>
             /\ AnthropicItems(Last(upstream), request.model) = <<OkItem(first_chunk)>>
             /\ \A i \in 1..(Len(upstream) - 1) :
                   AnthropicItems(upstream[i], request.model) = <<>>
        ELSE fed = ProducedChunks(Len(upstream))

\* The peeked chunk and two more chunks have been handed to the converter.
C27_Witness ==
    /\ AnthropicCommitted
    /\ Len(fed) = 3
    /\ fed[1] = first_chunk
    /\ Len(upstream) = 3

\* The finish_reason the mapping table gives an upstream finishReason.
MappedFinish(f) ==
    CASE f = "STOP" -> "stop"
      [] f = "MAX_TOKENS" -> "length"
      [] f \in {"SAFETY", "RECITATION"} -> "content_filter"
      [] OTHER -> None

\* C28: in both stream transformers the finish_reason of an emitted chunk is
\* "stop" for STOP, "length" for MAX_TOKENS, "content_filter" for SAFETY and
\* for RECITATION, and null for any other or absent finishReason.
C28_FinishReasonMapping ==
    \A k \in DOMAIN yielded :
        (upstream[k].kind = "data" /\ yielded[k].out # <<>> /\ yielded[k].out[1].ok)
        => yielded[k].out[1].data.choices[1].finish_reason = MappedFinish(upstream[k].finish)

\* ------------------------------------------------------------------ inline data frame

\* The candidates of a response, at top level or under "response".
CandidatesOf(resp) ==
    IF "candidates" \in DOMAIN resp THEN resp.candidates
    ELSE IF "response" \in DOMAIN resp /\ "candidates" \in DOMAIN resp.response
    THEN resp.response.candidates
    ELSE <<>>

\* The parts of a candidate.
PartsOf(candidate) ==
    IF "content" \in DOMAIN candidate /\ "parts" \in DOMAIN candidate.content
    THEN candidate.content.parts
    ELSE <<>>

\* A response with the parts of every candidate taken out: everything outside
\* candidates[*].content.parts.
OutsideParts(resp) ==
    LET strip(c) == IF "content" \in DOMAIN c /\ "parts" \in DOMAIN c.content
                    THEN [c EXCEPT !.content.parts = <<>>] ELSE c
    IN IF "candidates" \in DOMAIN resp
       THEN [resp EXCEPT !.candidates = [i \in DOMAIN @ |-> strip(@[i])]]
       ELSE IF "response" \in DOMAIN resp /\ "candidates" \in DOMAIN resp.response
       THEN [resp EXCEPT !.response.candidates = [i \in DOMAIN @ |-> strip(@[i])]]
       ELSE resp

\* C29: process_inline_data replaces each part carrying inlineData, in every
\* candidate, by one text part holding the Markdown image tag of its mimeType
\* and data, and preserves the rest: number and order of the parts of every
\* candidate, the parts without inlineData, and everything outside
\* candidates[*].content.parts.
C29_InlineFrame ==
    processed # <<>> =>
        LET before == CandidatesOf(unary_response)
            after == CandidatesOf(processed[1])
        IN /\ OutsideParts(processed[1]) = OutsideParts(unary_response)
           /\ Len(after) = Len(before)
           /\ \A i \in DOMAIN before :
                 LET p == PartsOf(before[i])
                     q == PartsOf(after[i])
                 IN /\ Len(q) = Len(p)
                    /\ \A j \in DOMAIN p :
                          IF "inlineData" \in DOMAIN p[j]
                          THEN /\ DOMAIN q[j] = {"text"}
                               /\ DOMAIN p[j].inlineData = {"mimeType", "data"}
                                  => q[j].text = ImageMarkdown(p[j].inlineData.mimeType,
                                                               p[j].inlineData.data)
                          ELSE q[j] = p[j]

\* ------------------------------------------------------------------ mapping snapshot

\* C30: every attempt of one Anthropic client request resolves its model
\* against the same mapping: a hot reload while the request is in flight,
\* between two retry attempts included, does not change the model its upstream
\* calls are sent with.
C30_MappingSnapshot ==
    \A i, j \in DOMAIN wire :
        (/\ wire[i].client = wire[j].client
         /\ wire[i].call = "stream_generate_anthropic")
        => wire[i].model = wire[j].model

\* ------------------------------------------------------------------ signature chunks

\* C39: in the Anthropic transformer a chunk whose first part has a
\* thoughtSignature is never lost: the signature is in the cache after the
\* chunk, whatever is decided about the chunk, and the chunk is neither dropped
\* nor turned into an empty-finish error, even with empty text and finishReason
\* STOP or MAX_TOKENS; it yields exactly one item, which carries the signature.
C39_SignatureChunkKept ==
    \A k \in DOMAIN yielded :
        (AnthropicChunk(k) /\ upstream[k].sig # None)
        => LET e == upstream[k]
               out == yielded[k].out
           IN /\ \E key \in SigKeys : CacheAfter(k)[key] = e.sig
              /\ Len(out) = 1
              /\ out[1].ok
              /\ out[1].data.choices[1].delta.thoughtSignature = e.sig

\* C39 witness: the Anthropic transformer has handled a chunk with a
\* thoughtSignature, empty text, not a thought, and finishReason MAX_TOKENS.
C39_Witness ==
    \E k \in DOMAIN yielded :
        /\ AnthropicChunk(k)
        /\ upstream[k].sig = "S1"
        /\ upstream[k].text = ""
        /\ ~upstream[k].thought
        /\ upstream[k].finish = "MAX_TOKENS"
        /\ thought_signature_map["latest"] = "S1"

\* ------------------------------------------------------------------ OpenAI stream properties

\* A streaming request of /v1/chat/completions served by stream_generate.
OpenAIStream ==
    request.endpoint = "openai" /\ UpstreamCall(request) = "stream_generate"

\* This step ends an attempt with one of the given outcomes.
AttemptEnds(how) ==
    /\ Len(outcomes') = Len(outcomes) + 1
    /\ Last(outcomes') \in how

\* C37: on the OpenAI streaming path the retry decision is taken at dispatch
\* only. An attempt is classified Retry or Fatal only when the upstream call
\* itself failed; when the call answered, the 200 SSE response is returned with
\* no event read; from then on no token is taken and no call is made, and an
\* Err item, the first included, ends the stream with nothing more sent.
C37_RetryOnlyAtDispatch ==
    [][OpenAIStream =>
          /\ AttemptEnds({"retry", "fatal", "exhausted"})
                => (pc = "await" /\ errors'[attempts] # None /\ reads = 0)
          /\ AttemptEnds({"success"})
                => /\ pc = "await"
                   /\ errors'[attempts] = None
                   /\ response'.status = StatusOK
                   /\ response'.kind = "sse"
                   /\ reads' = 0
                   /\ pc' = "body"
          /\ pc \in {"body", "aborted", "done"}
                => /\ taken' = taken
                   /\ called_with' = called_with
                   /\ outcomes' = outcomes
                   /\ response' = response
                   /\ returned' = returned
          /\ (pc = "body" /\ reads' = reads + 1
                /\ ~OpenAIItem(Last(upstream'), request.model).ok)
                => (pc' = "aborted" /\ sent' = sent)
          /\ pc = "aborted" => (pc' = "aborted" /\ sent' = sent)]_vars

\* C37 witness: the first event of the stream was an error; the stream ended
\* with nothing sent, after one token and one upstream call.
C37_Witness ==
    /\ OpenAIStream
    /\ pc = "aborted"
    /\ Len(upstream) = 1
    /\ sent = <<>>
    /\ taken = 1
    /\ calls = 1
    /\ response.status = StatusOK

\* ------------------------------------------------------------------ non-streaming collection

\* A non-streaming request of /v1/messages.
AnthropicUnary == request.endpoint = "anthropic" /\ ~IsStream(request)

\* The content of the chunks the transformer produced for the first n recorded
\* events, concatenated in order; Err items and [DONE] contribute nothing.
RECURSIVE CollectedText(_)
CollectedText(n) ==
    IF n = 0 THEN ""
    ELSE LET items == AnthropicItems(upstream[n], request.model)
         IN IF items # <<>> /\ items[1].ok /\ ~items[1].data.done
            THEN CollectedText(n - 1) \o items[1].data.choices[1].delta.content
            ELSE CollectedText(n - 1)

InitialMapped(b) ==
    IF RequestedModel(b) \in DOMAIN anthropic_mapping
    THEN anthropic_mapping[RequestedModel(b)]
    ELSE RequestedModel(b)

\* C32: on the Anthropic path the model written into the upstream body is the
\* alias table applied, first match wins, to the lowercased phase-1 result:
\* gemini-3-flash and gemini-3-pro-high exactly, then gemini- or thinking pass
\* through, then sonnet, haiku, opus, claude, and anything else passes through.
C32_AnthropicAlias ==
    \A i \in DOMAIN wire :
        wire[i].call = "stream_generate_anthropic"
        => wire[i].model = AliasTable(InitialMapped(wire[i]))

\* ------------------------------------------------------------------ image configuration

\* The request whose bodies are followed, and the imageSize key of `extra`
\* in either spelling.
ImageRequest == in_flight[1]
ExtraImageSize ==
    IF ImageRequest.extra.imageSize # None THEN ImageRequest.extra.imageSize
    ELSE ImageRequest.extra.image_size

\* C33: for an image model imageSize "4K" is in imageConfig exactly when
\* quality is "hd", or else extra.imageSize is "4K" or "hd", or else the model
\* name has the -4k or -hd suffix - so a quality other than "hd" with no
\* extra.imageSize and a -4k model gets 4K from the suffix; imageSize is absent
\* otherwise.
C33_HdPrecedence ==
    \A i \in DOMAIN wire :
        "aspectRatio" \in DOMAIN wire[i].imageConfig
        => LET wants4K == \/ ImageRequest.quality = "hd"
                          \/ ExtraImageSize \in {"4K", "hd"}
                          \/ Contains(ImageRequest.model, "-4k")
                          \/ Contains(ImageRequest.model, "-hd")
           IN IF wants4K
              THEN wire[i].imageConfig = [aspectRatio |-> wire[i].imageConfig.aspectRatio,
                                          imageSize |-> "4K"]
              ELSE "imageSize" \notin DOMAIN wire[i].imageConfig

\* The aspect ratio the precedence gives the request: extra.aspectRatio, or
\* extra.aspect_ratio, then `size`, then the model suffix, then 1:1.
ExpectedAspectRatio ==
    LET req == ImageRequest
    IN IF req.extra.aspectRatio # None THEN req.extra.aspectRatio
       ELSE IF req.extra.aspect_ratio # None THEN req.extra.aspect_ratio
       ELSE IF req.size # None
       THEN CASE req.size = "1024x1792" -> "9:16"
              [] req.size = "1792x1024" -> "16:9"
              [] req.size = "768x1024" -> "3:4"
              [] req.size = "1024x768" -> "4:3"
              [] OTHER -> "1:1"
       ELSE IF Contains(req.model, "-16x9") THEN "16:9"
       ELSE IF Contains(req.model, "-9x16") THEN "9:16"
       ELSE IF Contains(req.model, "-4x3") THEN "4:3"
       ELSE IF Contains(req.model, "-3x4") THEN "3:4"
       ELSE "1:1"

\* C34: in stream_generate and in generate alike, the body has an imageConfig
\* exactly when the model contains gemini-3-pro-image; its aspectRatio follows
\* the precedence extra, size, model suffix, 1:1; and the upstream model is
\* then gemini-3-pro-image, every suffix stripped.
C34_AspectRatioPrecedence ==
    \A i \in DOMAIN wire :
        IF Contains(ImageRequest.model, "gemini-3-pro-image")
        THEN /\ "aspectRatio" \in DOMAIN wire[i].imageConfig
             /\ wire[i].imageConfig.aspectRatio = ExpectedAspectRatio
             /\ wire[i].model = "gemini-3-pro-image"
        ELSE "aspectRatio" \notin DOMAIN wire[i].imageConfig

\* C34 witness: both functions have built the body of a request whose model
\* has the suffix -9x16 and whose size asks for 16:9; the size decided.
C34_Witness ==
    /\ Len(wire) >= 2
    /\ wire[1].call # wire[2].call
    /\ ImageRequest.model = "gemini-3-pro-image-9x16-4k"
    /\ ImageRequest.size = "1792x1024"
    /\ ImageRequest.extra.aspectRatio = None
    /\ ImageRequest.extra.aspect_ratio = None
    /\ wire[1].imageConfig.aspectRatio = "16:9"
    /\ wire[2].imageConfig.aspectRatio = "16:9"

\* ------------------------------------------------------------------ termination

AwaitsUpstream(t) == tasks[t].pc \in {"call", "peek", "collect"}

\* C31: no shared lock is held across a suspension point: a request that
\* awaits the upstream connect or an upstream event holds no read guard of the
\* mapping, so a reload is never kept waiting by an upstream call in flight.
C31_NoLockAcrossAwait ==
    \A t \in 1..MaxClients : AwaitsUpstream(t) => mapping_lock.readers[t] = 0

\* Task t waits for the lock.
WaitsForLock(t) == tasks[t].pc \in {"wait_614", "wait_763", "wait_write"}

\* C36: the lock of the mapping, fair and write-preferring, never deadlocks:
\* a reload that waits for the write lock gets it, and no request waits for a
\* read guard forever, however many Anthropic requests, stream or not, are
\* served meanwhile.
C36_NoDeadlock ==
    \A t \in Tasks : WaitsForLock(t) ~> ~WaitsForLock(t)

\* ------------------------------------------------------------------ the cache under concurrency

\* C40: whatever the interleaving of the Anthropic streams, the value stored
\* in the signature cache under a key - a responseId, or "latest" for chunks
\* without one - is the thoughtSignature of the chunk processed last among the
\* chunks of all requests that have this key, and an entry is never removed.
C40_LastWriterWins ==
    \A k \in SigKeys : thought_signature_map[k] = last_signature[k]

====
